---- MODULE Spec2Model ----
(***************************************************************************)
(* A model of the request-orchestration and response-extraction core of    *)
(* the VIOLEN client:                                                      *)
(*   - queryWebNetwork   (src/services/gemini.ts), the tiered dispatcher;  *)
(*   - the suggestion-parsing effect of ScriptMode                         *)
(*     (src/components/StockMode.tsx), the directive extractor;            *)
(*   - findStockFootage  (src/services/gemini.ts), the JSON-array          *)
(*     extractor;                                                          *)
(*   - MarkdownImage and YouTubeEmbed (src/unnamed/part_000) and           *)
(*     ScriptImage (src/components/StockMode.tsx), the media validators.   *)
(*   - the archives of ChatMode and ScriptMode in localStorage, and        *)
(*     handleSend of ChatMode (src/components/ChatMode.tsx);               *)
(*   - VideoTranscriber and its worker (src/components/Sidebar.tsx).       *)
(* Each component has its own variables, its own actions and its own       *)
(* specification over the shared initial state.                            *)
(***************************************************************************)
EXTENDS Integers, Sequences, FiniteSets, TLC

VARIABLES
    \* ---- queryWebNetwork (one call at a time) ----
    qPc,          \* "idle" | "primary" | "backup" | "done": position of the call
    qArgs,        \* the arguments of the call in progress
    requests,     \* the generateContent requests issued by the call, in order
    outcomes,     \* the outcomes the remote service delivered to the call, in order
    warnLog,      \* the console.warn entries the call emitted, in order
    qResult,      \* how the promise returned by the call settled
    \* ---- ScriptMode ----
    params,           \* {topic, channelName} of the ScriptParams state
    generatedScript,  \* the script body
    suggestions,      \* the extracted directives
    isGenerating,     \* the busy flag
    compiling,        \* number of compileWebReport calls in flight
    savedScripts,     \* the archive list, as loaded from the store on mount
    scriptStore,      \* localStorage[STORAGE_KEY]: absent, or a JSON text
    scriptLines,      \* the lines the current body was composed of (history)
    \* ---- findStockFootage (one call at a time) ----
    fPc,          \* "idle" | "waiting" | "done"
    fQuery,       \* the query of the call in progress
    fRemote,      \* the outcome the remote service delivered (history)
    fConsole,     \* the console.error entries of the call
    fResult,      \* how the promise returned by the call settled
    \* ---- the media validators (MarkdownImage, ScriptImage, YouTubeEmbed) ----
    instances,    \* every component instance mounted so far, in mount order
    \* ---- ChatMode ----
    messages,        \* the conversation (a prop, owned by the parent)
    archives,        \* the archive list held by the mounted component
    isArchivesOpen,  \* whether the archive drawer is open
    chatStore,       \* localStorage[CHAT_ARCHIVE_KEY]: absent, or a JSON text
    now,             \* the last value Date.now() returned
    isLoading,       \* the busy flag of the mounted component
    send,            \* the handleSend call in progress, if any
    \* ---- transcribeVideo (one call at a time) ----
    tPc,          \* "idle" | "waiting" | "done"
    tRequests,    \* the generateContent requests issued by the call
    tRemote,      \* the outcome the remote service delivered (history)
    tConsole,     \* the console.error entries of the call
    tResult,      \* how the promise returned by the call settled
    \* ---- VideoTranscriber and its worker ----
    videoFile,       \* the selected file, if any
    transcription,   \* the transcript shown ('' when none)
    isTranscribing,  \* the busy flag
    error,           \* the error shown, if any
    progress,        \* the status of the progress state
    decoding,        \* the getAudioData calls in progress: the file of each
    workerJobs,      \* the jobs the worker received and has not finished
    inbox            \* the worker's messages not yet handled, in order

dispatchVars == <<qPc, qArgs, requests, outcomes, warnLog, qResult>>
scriptVars   == <<params, generatedScript, suggestions, isGenerating, compiling,
                 savedScripts, scriptStore, scriptLines>>
footageVars  == <<fPc, fQuery, fRemote, fConsole, fResult>>
mediaVars    == <<instances>>
chatVars     == <<messages, archives, isArchivesOpen, chatStore, now, isLoading, send>>
transcribeVars == <<tPc, tRequests, tRemote, tConsole, tResult>>
workerVars == <<videoFile, transcription, isTranscribing, error, progress, decoding,
                workerJobs, inbox>>
uiVars == <<mediaVars, chatVars, transcribeVars, workerVars>>
vars == <<dispatchVars, scriptVars, footageVars, uiVars>>

(***************************************************************************)
(* JavaScript values.  An optional value is a sequence of length 0         *)
(* (undefined) or 1 (the value).  Response texts are strings; error        *)
(* messages and script texts, which the code searches and cuts, are        *)
(* sequences of characters.                                                *)
(***************************************************************************)
None == <<>>
Some(v) == <<v>>
IsSome(o) == o # None
Val(o) == o[1]

\* JS truthiness of an optional string: undefined and "" are falsy.
TruthyStr(o) == IsSome(o) /\ Val(o) # ""

\* a || b on an optional string a and a string b.
OrElse(o, d) == IF TruthyStr(o) THEN Val(o) ELSE d

\* Whether the character sequence sub occurs in s at offset i (0-based).
OccursAt(s, sub, i) ==
    /\ i + Len(sub) <= Len(s)
    /\ \A k \in 1..Len(sub) : s[i + k] = sub[k]

\* String.prototype.includes on character sequences.
Includes(s, sub) == \E i \in 0..Len(s) : OccursAt(s, sub, i)


(***************************************************************************)
(* JavaScript values and JSON, as far as the archives need them.  An       *)
(* object is the sequence of its properties in insertion order.            *)
(***************************************************************************)
JUndefined == [type |-> "undefined", v |-> << >>]
JNull == [type |-> "null", v |-> << >>]
JString(chars) == [type |-> "string", v |-> chars]
JNumber(n) == [type |-> "number", v |-> n]
JArrayOf(items) == [type |-> "array", v |-> items]
JObjectOf(props) == [type |-> "object", v |-> props]
Prop(key, value) == [key |-> key, value |-> value]

\* obj.key
Get(obj, key) ==
    IF \E k \in 1..Len(obj.v) : obj.v[k].key = key
      THEN obj.v[CHOOSE k \in 1..Len(obj.v) : obj.v[k].key = key].value
      ELSE JUndefined

\* Number.prototype.toString of a non-negative integer.
DigitChars == << "0", "1", "2", "3", "4", "5", "6", "7", "8", "9" >>
RECURSIVE ToDigits(_)
ToDigits(n) ==
    IF n < 10 THEN << DigitChars[n + 1] >>
    ELSE Append(ToDigits(n \div 10), DigitChars[(n % 10) + 1])

DigitValue(c) == (CHOOSE k \in 1..10 : DigitChars[k] = c) - 1
RECURSIVE FromDigits(_)
FromDigits(ds) ==
    IF Len(ds) = 1 THEN DigitValue(ds[1])
    ELSE 10 * FromDigits(SubSeq(ds, 1, Len(ds) - 1)) + DigitValue(ds[Len(ds)])

\* The escapes JSON.stringify writes inside a string literal.
RECURSIVE Escape(_)
Escape(s) ==
    IF s = << >> THEN << >>
    ELSE (CASE Head(s) = "\"" -> << "\\", "\"" >>
            [] Head(s) = "\\" -> << "\\", "\\" >>
            [] Head(s) = "\n" -> << "\\", "n" >>
            [] OTHER -> << Head(s) >>) \o Escape(Tail(s))

\* ... and JSON.parse reads back.
RECURSIVE Unescape(_)
Unescape(s) ==
    IF s = << >> THEN << >>
    ELSE IF Head(s) = "\\" /\ Len(s) >= 2
      THEN << (IF s[2] = "n" THEN "\n" ELSE s[2]) >> \o Unescape(Tail(Tail(s)))
    ELSE << Head(s) >> \o Unescape(Tail(s))

\* ---- JSON.stringify: the text as a sequence of lexical tokens ----
Punct(t) == [t |-> t, v |-> << >>]
StringToken(chars) == [t |-> "string", v |-> Escape(chars)]
KeyToken(key) == [t |-> "key", v |-> key]
NumberToken(n) == [t |-> "number", v |-> ToDigits(n)]

RECURSIVE Stringify(_)
RECURSIVE StringifyItems(_)
RECURSIVE StringifyProps(_)

\* Properties whose value is undefined are left out.
DefinedProps(props) == SelectSeq(props, LAMBDA p : p.value.type # "undefined")

Stringify(x) ==
    CASE x.type = "string" -> << StringToken(x.v) >>
      [] x.type = "number" -> << NumberToken(x.v) >>
      [] x.type = "array" -> << Punct("[") >> \o StringifyItems(x.v) \o << Punct("]") >>
      [] x.type = "object" ->
            << Punct("{") >> \o StringifyProps(DefinedProps(x.v)) \o << Punct("}") >>
      [] OTHER -> << Punct("null") >>

StringifyItems(items) ==
    IF items = << >> THEN << >>
    ELSE Stringify(Head(items)) \o
         (IF Tail(items) = << >> THEN << >> ELSE << Punct(",") >> \o StringifyItems(Tail(items)))

StringifyProps(props) ==
    IF props = << >> THEN << >>
    ELSE << KeyToken(Head(props).key), Punct(":") >> \o Stringify(Head(props).value) \o
         (IF Tail(props) = << >> THEN << >> ELSE << Punct(",") >> \o StringifyProps(Tail(props)))

\* ---- JSON.parse ----
Failed == [ok |-> FALSE, value |-> JNull, rest |-> << >>]
Parsed(value, rest) == [ok |-> TRUE, value |-> value, rest |-> rest]

RECURSIVE ParseJson(_)
RECURSIVE ParseItems(_, _)
RECURSIVE ParseProps(_, _)
ParseJson(toks) ==
    IF toks = << >> THEN Failed
    ELSE CASE Head(toks).t = "null" -> Parsed(JNull, Tail(toks))
           [] Head(toks).t = "string" -> Parsed(JString(Unescape(Head(toks).v)), Tail(toks))
           [] Head(toks).t = "number" -> Parsed(JNumber(FromDigits(Head(toks).v)), Tail(toks))
           [] Head(toks).t = "[" ->
                 IF Len(toks) >= 2 /\ toks[2].t = "]"
                   THEN Parsed(JArrayOf(<< >>), Tail(Tail(toks)))
                   ELSE ParseItems(Tail(toks), << >>)
           [] Head(toks).t = "{" ->
                 IF Len(toks) >= 2 /\ toks[2].t = "}"
                   THEN Parsed(JObjectOf(<< >>), Tail(Tail(toks)))
                   ELSE ParseProps(Tail(toks), << >>)
           [] OTHER -> Failed

ParseItems(toks, items) ==
    LET r == ParseJson(toks) IN
    IF ~r.ok \/ r.rest = << >> THEN Failed
    ELSE IF Head(r.rest).t = "]" THEN Parsed(JArrayOf(Append(items, r.value)), Tail(r.rest))
    ELSE IF Head(r.rest).t = "," THEN ParseItems(Tail(r.rest), Append(items, r.value))
    ELSE Failed

ParseProps(toks, props) ==
    IF Len(toks) < 3 \/ toks[1].t # "key" \/ toks[2].t # ":" THEN Failed
    ELSE LET r == ParseJson(Tail(Tail(toks))) IN
         IF ~r.ok \/ r.rest = << >> THEN Failed
         ELSE IF Head(r.rest).t = "}"
           THEN Parsed(JObjectOf(Append(props, Prop(toks[1].v, r.value))), Tail(r.rest))
         ELSE IF Head(r.rest).t = ","
           THEN ParseProps(Tail(r.rest), Append(props, Prop(toks[1].v, r.value)))
         ELSE Failed

\* JSON.parse(text): the value, or None when it throws a SyntaxError.
ParseStored(toks) ==
    LET r == ParseJson(toks) IN
    IF r.ok /\ r.rest = << >> THEN Some(r.value) ELSE None

(***************************************************************************)
(* The dispatcher: queryWebNetwork.                                        *)
(***************************************************************************)
CORE_PROTOCOL == "gemini-3-flash-preview"
BACKUP_PROTOCOL == "gemini-3-pro-preview"

NO_DATA_PLACEHOLDER == "NO_DATA_RECEIVED_FROM_VIOLEN"
\* The dash of the source is U+2014, written here in ASCII.
BACKUP_MARKER == "\n\n_-- [Rerouted via Backup Node]_"
OVERLOAD_TEXT == "## SYSTEM OVERLOAD\n\nHigh traffic on all VIOLEN nodes. Please wait 30 seconds."
CONNECTION_ERROR_TEXT == "## CONNECTION ERROR\n\nUnable to reach the VIOLEN Gateway."

\* ---- the inputs of a call ----
Queries == {"q1", "q2"}
VisualDatas == {None, Some(""), Some("BASE64")}
VisualMimeTypes == {None, Some("image/png")}
BotModes == {"surfer", "creative"}

\* ---- what the remote service can answer ----
\* A response: its text (absent, empty or not) and its grounding chunks
\* (candidates?.[0]?.groundingMetadata?.groundingChunks: absent or a list).
RemoteTexts == {None, Some(""), Some("answer")}
RemoteChunks == {None, Some(<<>>), Some(<<"src1">>)}
RemoteResponses == [text : RemoteTexts, chunks : RemoteChunks]

\* A thrown value: null/undefined, or an object with an optional message
\* (a string, here a sequence of characters) and an optional numeric status.
ErrMessages ==
    { <<>>,
      <<"e">>,
      <<"4", "2", "9">>,
      <<"e", " ", "4", "2", "9", " ", "e">>,
      <<"5", "0", "3">>,
      <<"e", "5", "0", "3">>,
      <<"4", "2">>,
      <<"5", "0", "0">> }
ErrStatuses == {429, 503, 500, 400}
NullishThrown == [kind |-> "nullish", message |-> None, status |-> None]
ThrownValues ==
    {NullishThrown} \cup
    [kind : {"object"},
     message : {None} \cup {Some(m) : m \in ErrMessages},
     status : {None} \cup {Some(s) : s \in ErrStatuses}]

Resolved(tier, resp) == [tier |-> tier, ok |-> TRUE, resp |-> Some(resp), err |-> None]
Rejected(tier, err) == [tier |-> tier, ok |-> FALSE, resp |-> None, err |-> Some(err)]

\* ---- how the returned promise settles ----
Pending == [state |-> "pending", text |-> None, groundingChunks |-> None]
Resolve(text, chunks) == [state |-> "resolved", text |-> Some(text), groundingChunks |-> chunks]
\* A rejection with the TypeError raised inside the catch block.
RejectTypeError == [state |-> "rejected", text |-> None, groundingChunks |-> None]

\* executeRequest, up to the await: the request it sends for a model tier.
\* The inline attachment is pushed only when both visualData and
\* visualMimeType are truthy; the query text is always the last part.
DataPackets(args) ==
    (IF TruthyStr(args.visualData) /\ TruthyStr(args.visualMimeType)
        THEN << [inlineData |-> [data |-> Val(args.visualData),
                                 mimeType |-> Val(args.visualMimeType)]] >>
        ELSE << >>)
    \o << [text |-> args.query] >>

ExecuteRequest_DropAttachmentOnBackup(model, args) ==
    [model |-> model,
     parts |-> IF model = BACKUP_PROTOCOL THEN << [text |-> args.query] >>
                                          ELSE DataPackets(args),
     googleSearch |-> TRUE,
     systemInstruction |-> args.activeNode]

ExecuteRequest(model, args) ==
    [model |-> model,
     parts |-> DataPackets(args),
     googleSearch |-> TRUE,
     systemInstruction |-> args.activeNode]

\* executeRequest, after the await: { text: response.text || placeholder,
\* groundingChunks: webSources }.
WebResponse(resp) ==
    Resolve(OrElse(resp.text, NO_DATA_PLACEHOLDER), resp.chunks)

\* fallbackResponse.text += marker
Reroute_NoMarker(r) == r

Reroute(r) == [r EXCEPT !.text = Some(Val(r.text) \o BACKUP_MARKER)]

OverloadResponse_Connection == Resolve(CONNECTION_ERROR_TEXT, Some(<<>>))

OverloadResponse == Resolve(OVERLOAD_TEXT, Some(<<>>))

ConnectionErrorResponse == Resolve(CONNECTION_ERROR_TEXT, Some(<<>>))

\* error.message?.includes(code): undefined when there is no message.
MessageIncludes(err, code) == IsSome(err.message) /\ Includes(Val(err.message), code)

\* isTrafficError, for a thrown value that is an object.
IsTrafficError(err) ==
    \/ MessageIncludes(err, <<"4", "2", "9">>)
    \/ err.status = Some(429)
    \/ MessageIncludes(err, <<"5", "0", "3">>)

\* Reading error.message raises a TypeError when the thrown value is null
\* or undefined.
ReadingMessageThrows(err) == err.kind = "nullish"

\* console.warn(`Primary Uplink (...) Failed:`, error.message)
PrimaryWarning(err) == [tier |-> CORE_PROTOCOL, message |-> err.message]

QueryWebNetwork(query, visualData, visualMimeType, activeNode) ==
    /\ qPc \in {"idle", "done"}
    /\ qArgs' = [query |-> query, visualData |-> visualData,
                 visualMimeType |-> visualMimeType, activeNode |-> activeNode]
    /\ requests' = << ExecuteRequest(CORE_PROTOCOL, qArgs') >>
    /\ outcomes' = << >>
    /\ warnLog' = << >>
    /\ qResult' = Pending
    /\ qPc' = "primary"
    /\ UNCHANGED <<scriptVars, footageVars, uiVars>>

PrimaryResolves ==
    /\ qPc = "primary"
    /\ \E resp \in RemoteResponses :
          /\ outcomes' = Append(outcomes, Resolved("primary", resp))
          /\ qResult' = WebResponse(resp)
    /\ qPc' = "done"
    /\ UNCHANGED <<qArgs, requests, warnLog, scriptVars, footageVars, uiVars>>

PrimaryRejects ==
    /\ qPc = "primary"
    /\ \E err \in ThrownValues :
          /\ outcomes' = Append(outcomes, Rejected("primary", err))
          /\ IF ReadingMessageThrows(err)
               THEN \* the catch block itself throws: the promise rejects
                    /\ qResult' = RejectTypeError
                    /\ qPc' = "done"
                    /\ UNCHANGED <<requests, warnLog>>
               ELSE /\ warnLog' = Append(warnLog, PrimaryWarning(err))
                    /\ IF IsTrafficError(err)
                         THEN /\ requests' = Append(requests,
                                                   ExecuteRequest(BACKUP_PROTOCOL, qArgs))
                              /\ qPc' = "backup"
                              /\ UNCHANGED qResult
                         ELSE /\ qResult' = ConnectionErrorResponse
                              /\ qPc' = "done"
                              /\ UNCHANGED requests
    /\ UNCHANGED <<qArgs, scriptVars, footageVars, uiVars>>

BackupResolves ==
    /\ qPc = "backup"
    /\ \E resp \in RemoteResponses :
          /\ outcomes' = Append(outcomes, Resolved("backup", resp))
          /\ qResult' = Reroute(WebResponse(resp))
    /\ qPc' = "done"
    /\ UNCHANGED <<qArgs, requests, warnLog, scriptVars, footageVars, uiVars>>

BackupRejects ==
    /\ qPc = "backup"
    /\ \E err \in ThrownValues : outcomes' = Append(outcomes, Rejected("backup", err))
    /\ qResult' = OverloadResponse
    /\ qPc' = "done"
    /\ UNCHANGED <<qArgs, requests, warnLog, scriptVars, footageVars, uiVars>>

NextDispatch ==
    \/ \E q \in Queries, d \in VisualDatas, m \in VisualMimeTypes, n \in BotModes :
          QueryWebNetwork(q, d, m, n)
    \/ PrimaryResolves
    \/ PrimaryRejects
    \/ BackupResolves
    \/ BackupRejects

InitDispatch ==
    /\ qPc = "idle"
    /\ qArgs = [query |-> "q1", visualData |-> None, visualMimeType |-> None,
                activeNode |-> "surfer"]
    /\ requests = << >>
    /\ outcomes = << >>
    /\ warnLog = << >>
    /\ qResult = Pending

InitScript ==
    /\ params = [topic |-> << >>, channelName |-> << >>]
    /\ generatedScript = << >>
    /\ suggestions = << >>
    /\ isGenerating = FALSE
    /\ compiling = 0
    /\ savedScripts = << >>
    /\ scriptStore = None
    /\ scriptLines = << >>

InitFootage ==
    /\ fPc = "idle"
    /\ fQuery = "q1"
    /\ fRemote = None
    /\ fConsole = << >>
    /\ fResult = [state |-> "pending", videos |-> << >>]

InitMedia == instances = << >>

InitChat ==
    /\ messages = << >>
    /\ archives = << >>
    /\ isArchivesOpen = FALSE
    /\ chatStore = None
    /\ now = 9
    /\ isLoading = FALSE
    /\ send = [pc |-> "idle"]

InitTranscribe ==
    /\ tPc = "idle"
    /\ tRequests = << >>
    /\ tRemote = None
    /\ tConsole = << >>
    /\ tResult = [state |-> "pending", text |-> "", error |-> "", detail |-> << >>]

InitWorker ==
    /\ videoFile = None
    /\ transcription = ""
    /\ isTranscribing = FALSE
    /\ error = None
    /\ progress = "idle"
    /\ decoding = << >>
    /\ workerJobs = << >>
    /\ inbox = << >>

InitUi == InitMedia /\ InitChat /\ InitTranscribe /\ InitWorker

Init == InitDispatch /\ InitScript /\ InitFootage /\ InitUi

SpecDispatch == Init /\ [][NextDispatch]_vars


(***************************************************************************)
(* Properties of the dispatcher, checked under SpecDispatch.               *)
(***************************************************************************)
PrimaryFailed == Len(outcomes) >= 1 /\ ~outcomes[1].ok
PrimaryError == Val(outcomes[1].err)
BackupAnswered == Len(outcomes) = 2
BackupInvoked == Len(requests) = 2

\* A failure signals transient overload when it carries 429 (rate limit) or
\* 503 (service unavailable) in its status field or in its message.
HasOverloadSignal(err) ==
    /\ err.kind = "object"
    /\ \/ err.status \in {Some(429), Some(503)}
       \/ MessageIncludes(err, <<"4", "2", "9">>)
       \/ MessageIncludes(err, <<"5", "0", "3">>)

\* C1: whatever the remote calls do (text, empty or absent text, a rejection
\* with any thrown value on either tier), a finished queryWebNetwork call
\* has resolved, never rejected, and the resolved text is a defined,
\* non-empty string.
C1_AlwaysResolvesWithText ==
    qPc = "done" =>
        /\ qResult.state = "resolved"
        /\ IsSome(qResult.text)
        /\ Val(qResult.text) # ""

\* C2: when the primary request failed with a transient-overload signal and
\* the backup request succeeded, the call returns the backup tier's text
\* (the placeholder when that text is empty or absent) with the backup
\* marker appended, together with the backup tier's citations.
C2_BackupSuccessIsMarked ==
    (qPc = "done" /\ PrimaryFailed /\ HasOverloadSignal(PrimaryError)
        /\ BackupAnswered /\ outcomes[2].ok) =>
        LET backup == Val(outcomes[2].resp) IN
        /\ qResult.state = "resolved"
        /\ qResult.text =
              Some((IF backup.text \in {None, Some("")}
                      THEN "NO_DATA_RECEIVED_FROM_VIOLEN"
                      ELSE Val(backup.text))
                   \o "\n\n_-- [Rerouted via Backup Node]_")
        /\ qResult.groundingChunks = backup.chunks

C2_Witness ==
    /\ qPc = "done" /\ PrimaryFailed /\ HasOverloadSignal(PrimaryError)
    /\ BackupAnswered /\ outcomes[2].ok
    /\ Val(outcomes[2].resp).text = Some("answer")
    /\ Val(outcomes[2].resp).chunks = Some(<<"src1">>)

\* C3: when the primary request failed with a transient-overload signal and
\* the backup request then failed, with any error, the call returns exactly
\* the SYSTEM OVERLOAD sentinel with an empty citation list.
C3_BackupFailureIsOverload ==
    (qPc = "done" /\ PrimaryFailed /\ HasOverloadSignal(PrimaryError)
        /\ BackupAnswered /\ ~outcomes[2].ok) =>
        /\ qResult.state = "resolved"
        /\ qResult.text =
              Some("## SYSTEM OVERLOAD\n\nHigh traffic on all VIOLEN nodes. Please wait 30 seconds.")
        /\ qResult.groundingChunks = Some(<< >>)

C3_Witness ==
    /\ qPc = "done" /\ PrimaryFailed /\ HasOverloadSignal(PrimaryError)
    /\ BackupAnswered /\ ~outcomes[2].ok
    /\ Val(outcomes[2].err) = NullishThrown

\* C4: when the primary request failed with an error that is not classified
\* as transient overload, the backup tier is never invoked during the call,
\* and the call returns exactly the CONNECTION ERROR sentinel with an empty
\* citation list.
C4_NonTransientIsConnectionError ==
    (PrimaryFailed /\ ~IsTrafficError(PrimaryError)) =>
        /\ ~BackupInvoked
        /\ qPc = "done"
        /\ qResult.state = "resolved"
        /\ qResult.text = Some("## CONNECTION ERROR\n\nUnable to reach the VIOLEN Gateway.")
        /\ qResult.groundingChunks = Some(<< >>)

\* C5: one call issues at most two requests; the first is always to the
\* primary tier; the second, if any, is to the backup tier, is issued only
\* after the primary request has failed, and carries the same query text
\* and the same inline attachment as the first; no request follows the
\* backup's outcome.
C5_AtMostOneEscalation ==
    /\ Len(requests) <= 2
    /\ Len(requests) <= Len(outcomes) + 1
    /\ qPc # "idle" =>
          /\ Len(requests) >= 1
          /\ requests[1].model = "gemini-3-flash-preview"
          /\ requests[1].parts[Len(requests[1].parts)] = [text |-> qArgs.query]
          /\ Len(requests[1].parts) = 2 =>
                requests[1].parts[1] =
                    [inlineData |-> [data |-> Val(qArgs.visualData),
                                     mimeType |-> Val(qArgs.visualMimeType)]]
    /\ BackupInvoked =>
          /\ requests[2].model = "gemini-3-pro-preview"
          /\ PrimaryFailed /\ outcomes[1].tier = "primary"
          /\ requests[2].parts = requests[1].parts
    /\ BackupAnswered =>
          /\ qPc = "done" /\ BackupInvoked /\ outcomes[2].tier = "backup"

C5_Witness ==
    /\ qPc = "done" /\ BackupInvoked /\ BackupAnswered
    /\ Len(requests[2].parts) = 2

\* C6: every primary failure that signals rate limiting (429) or service
\* unavailability (503), in the error's status field or in its message,
\* escalates to the backup tier, and every failure carrying neither signal
\* does not.
C6_SignalDecidesEscalation ==
    PrimaryFailed => (BackupInvoked <=> HasOverloadSignal(PrimaryError))

\* C7: every remote-call failure of a finished call, on the primary tier
\* and on the backup tier alike, has emitted one diagnostic log entry.
C7_EveryFailureIsLogged ==
    qPc = "done" =>
        Len(warnLog) = Cardinality({i \in 1..Len(outcomes) : ~outcomes[i].ok})


(***************************************************************************)
(* ScriptMode: the script body and the directives extracted from it.       *)
(* Script texts are sequences of characters.                               *)
(***************************************************************************)
SUGGESTION_MARKER == <<">", " ", "S", "U", "G", "G", "E", "S", "T", "I", "O", "N", ":">>
NewLine == "\n"

\* The white space String.prototype.trim removes (of the characters used here).
IsSpace(c) == c \in {" ", "\t", "\r", "\n"}

\* String.prototype.indexOf: the 0-based offset of the first occurrence.
IndexOf(s, sub) == CHOOSE i \in 0..Len(s) :
                      /\ OccursAt(s, sub, i)
                      /\ \A j \in 0..(i - 1) : ~OccursAt(s, sub, j)

\* String.prototype.replace(sub, ''): removes the first occurrence only.
RemoveFirst_DropPrefix(s, sub) ==
    IF Includes(s, sub)
      THEN SubSeq(s, IndexOf(s, sub) + Len(sub) + 1, Len(s))
      ELSE s

RemoveFirst(s, sub) ==
    IF Includes(s, sub)
      THEN LET i == IndexOf(s, sub)
           IN SubSeq(s, 1, i) \o SubSeq(s, i + Len(sub) + 1, Len(s))
      ELSE s

RECURSIVE TrimStart(_)
TrimStart(s) == IF s # << >> /\ IsSpace(Head(s)) THEN TrimStart(Tail(s)) ELSE s

RECURSIVE TrimEnd(_)
TrimEnd(s) == IF s # << >> /\ IsSpace(s[Len(s)])
                THEN TrimEnd(SubSeq(s, 1, Len(s) - 1)) ELSE s

\* String.prototype.trim
Trim(s) == TrimEnd(TrimStart(s))

\* String.prototype.split('\n')
RECURSIVE SplitLines(_)
SplitLines(s) ==
    IF Includes(s, <<NewLine>>)
      THEN LET i == IndexOf(s, <<NewLine>>)
           IN << SubSeq(s, 1, i) >> \o SplitLines(SubSeq(s, i + 2, Len(s)))
      ELSE << s >>

\* foundSuggestions.push(title)
PushTitle_Unshift(found, title) == << title >> \o found

PushTitle(found, title) == Append(found, title)

\* The body of lines.forEach: a line that includes the marker gives the
\* line with the marker removed, trimmed, as a title, pushed when non-empty.
VisitLine(found, line) ==
    IF Includes(line, SUGGESTION_MARKER)
      THEN LET title == Trim(RemoveFirst(line, SUGGESTION_MARKER))
           IN IF title # << >> THEN PushTitle(found, title) ELSE found
      ELSE found

RECURSIVE ForEachLine(_, _)
ForEachLine(lines, found) ==
    IF lines = << >> THEN found
    ELSE ForEachLine(Tail(lines), VisitLine(found, Head(lines)))

\* The suggestion-parsing effect, run whenever generatedScript changes.
ParseSuggestions(script) ==
    IF script = << >> THEN << >>
    ELSE ForEachLine(SplitLines(script), << >>)

\* ---- the script texts the model draws from ----
\* A text is composed of lines joined by newlines; a line is the text before
\* the marker, the marker (or not), and the text after it.
\* The parsing effect has [generatedScript] as its dependencies: it runs
\* after a render in which the body differs from the body of the render
\* before, and otherwise the list stays as it is.
SuggestionEffect_Never(previous, script, current) == current

SuggestionEffect(previous, script, current) ==
    IF script = previous THEN current ELSE ParseSuggestions(script)

MaxLines == 3
MaxReplyLines == 1
MaxCompiling == 2

BodyLine(text) == [pre |-> text, hasMarker |-> FALSE, post |-> << >>]
MarkerLine(pre, post) == [pre |-> pre, hasMarker |-> TRUE, post |-> post]

LineShapes ==
    { BodyLine(<< >>),                               \* an empty line
      BodyLine(<<"x">>),                             \* a line of body text
      MarkerLine(<< >>, <<" ", "A">>),               \* "> SUGGESTION: A"
      MarkerLine(<< >>, <<" ", "B", " ">>),          \* "> SUGGESTION: B "
      MarkerLine(<< >>, <<" ">>),                    \* "> SUGGESTION: "
      MarkerLine(<<"x", " ">>, <<" ", "A">>) }       \* "x > SUGGESTION: A"

LineText(l) == l.pre \o (IF l.hasMarker THEN SUGGESTION_MARKER ELSE << >>) \o l.post

RECURSIVE JoinLines(_)
JoinLines(ls) ==
    IF ls = << >> THEN << >>
    ELSE IF Len(ls) = 1 THEN LineText(ls[1])
    ELSE LineText(ls[1]) \o <<NewLine>> \o JoinLines(Tail(ls))

\* The non-empty texts of at most n lines.
Compositions(n) ==
    { ls \in UNION { [1..k -> LineShapes] : k \in 1..n } : JoinLines(ls) # << >> }

\* What a saved script can hold: saveScript stores only a non-empty body.
\* lines records how the content was composed.
SavedScript(id, title, channel, ls, timestamp) ==
    [id |-> ToDigits(id), title |-> title, channel |-> channel,
     content |-> JoinLines(ls), timestamp |-> timestamp, lines |-> ls]

\* A saved script as the JavaScript object saveScript builds.
ScriptObject(script) ==
    JObjectOf(<< Prop("id", JString(script.id)),
                 Prop("title", JString(script.title)),
                 Prop("channel", JString(script.channel)),
                 Prop("content", JString(script.content)),
                 Prop("timestamp", JNumber(script.timestamp)) >>)

ScriptObjects(list) == JArrayOf([k \in 1..Len(list) |-> ScriptObject(list[k])])

\* localStorage.setItem(STORAGE_KEY, JSON.stringify(updated))
PersistScripts_NewestOnly(updated) ==
    Some(Stringify(ScriptObjects(SubSeq(updated, 1, 1))))

PersistScripts(updated) == Some(Stringify(ScriptObjects(updated)))

TopicInputs == { << >>, <<"t">> }
ChannelInputs == { << >>, <<"c">> }

\* onChange of the topic and channel inputs.
SetTopic(t) ==
    /\ params' = [params EXCEPT !.topic = t]
    /\ UNCHANGED <<generatedScript, suggestions, isGenerating, compiling,
                   savedScripts, scriptStore, scriptLines>>
    /\ UNCHANGED <<dispatchVars, footageVars, uiVars>>

SetChannelName(c) ==
    /\ params' = [params EXCEPT !.channelName = c]
    /\ UNCHANGED <<generatedScript, suggestions, isGenerating, compiling,
                   savedScripts, scriptStore, scriptLines>>
    /\ UNCHANGED <<dispatchVars, footageVars, uiVars>>

\* loadScript of an entry of the archive list, followed by the parsing effect.
LoadScript(script) ==
    /\ \E i \in 1..Len(savedScripts) : savedScripts[i] = script
    /\ params' = [params EXCEPT !.topic = script.title, !.channelName = script.channel]
    /\ generatedScript' = script.content
    /\ scriptLines' = script.lines
    /\ suggestions' = SuggestionEffect(generatedScript, generatedScript', suggestions)
    /\ UNCHANGED <<isGenerating, compiling, savedScripts, scriptStore>>
    /\ UNCHANGED <<dispatchVars, footageVars, uiVars>>

\* handleGenerate up to the await.  override is the clicked suggestion, or
\* None for the compile button (disabled while generating or without a topic
\* and a channel name).  The suggestion buttons are rendered only with a
\* non-empty body.
HandleGenerate(override) ==
    /\ compiling < MaxCompiling
    /\ IF IsSome(override)
         THEN /\ generatedScript # << >>
              /\ \E k \in 1..Len(suggestions) : suggestions[k] = Val(override)
         ELSE ~isGenerating
    /\ LET topicToUse == IF IsSome(override) /\ Val(override) # << >>
                            THEN Val(override) ELSE params.topic
       IN /\ topicToUse # << >>
          /\ params.channelName # << >>
    /\ isGenerating' = TRUE
    /\ generatedScript' = << >>
    /\ scriptLines' = << >>
    /\ suggestions' = << >>
    /\ params' = IF IsSome(override) /\ Val(override) # << >>
                   THEN [params EXCEPT !.topic = Val(override)] ELSE params
    /\ compiling' = compiling + 1
    /\ UNCHANGED <<savedScripts, scriptStore>>
    /\ UNCHANGED <<dispatchVars, footageVars, uiVars>>

\* response.text.replace(/> SUGGESTION:.*\n?/g, ''): every occurrence of the
\* marker goes, with the rest of its line and the line feed that ends it.
RECURSIVE DropToLineEnd(_)
DropToLineEnd(s) ==
    IF s = << >> THEN << >>
    ELSE IF Head(s) = NewLine THEN Tail(s)
    ELSE IF Head(s) = "\r" THEN s
    ELSE DropToLineEnd(Tail(s))

RECURSIVE StripSuggestions(_)
StripSuggestions(s) ==
    IF s = << >> THEN << >>
    ELSE IF OccursAt(s, SUGGESTION_MARKER, 0)
      THEN StripSuggestions(DropToLineEnd(SubSeq(s, Len(SUGGESTION_MARKER) + 1, Len(s))))
    ELSE << Head(s) >> \o StripSuggestions(Tail(s))

\* The body after setGeneratedScript(cleanText); setGeneratedScript(response.text):
\* the second call wins.
GeneratedBody_Clean(text) == StripSuggestions(text)

GeneratedBody(text) == text

\* compileWebReport resolves: the raw response text becomes the body, the
\* parsing effect runs, and the finally block clears the busy flag.
GenerateResolves ==
    /\ compiling > 0
    /\ \E lines \in Compositions(MaxReplyLines) :
          /\ generatedScript' = GeneratedBody(JoinLines(lines))
          /\ scriptLines' = lines
          /\ suggestions' = SuggestionEffect(generatedScript, generatedScript', suggestions)
    /\ isGenerating' = FALSE
    /\ compiling' = compiling - 1
    /\ UNCHANGED <<params, savedScripts, scriptStore>>
    /\ UNCHANGED <<dispatchVars, footageVars, uiVars>>

\* compileWebReport rejects: the catch block logs, the finally block clears
\* the busy flag.
GenerateRejects ==
    /\ compiling > 0
    /\ isGenerating' = FALSE
    /\ compiling' = compiling - 1
    /\ UNCHANGED <<params, generatedScript, suggestions, savedScripts, scriptStore,
                   scriptLines>>
    /\ UNCHANGED <<dispatchVars, footageVars, uiVars>>

\* The state after mount with the given archive in the store.
InitScriptWith(archiveLists) ==
    /\ params = [topic |-> << >>, channelName |-> << >>]
    /\ generatedScript = << >>
    /\ suggestions = << >>
    /\ isGenerating = FALSE
    /\ compiling = 0
    /\ savedScripts \in archiveLists
    /\ scriptStore = IF savedScripts = << >> THEN None ELSE PersistScripts(savedScripts)
    /\ scriptLines = << >>

\* ---- the extractor over every archived text of at most MaxLines lines ----
ExtractArchives ==
    { << >> } \cup
    { << SavedScript(1, <<"t">>, c, ls, 1) >> : c \in ChannelInputs, ls \in Compositions(MaxLines) }

InitExtract == InitDispatch /\ InitScriptWith(ExtractArchives) /\ InitFootage /\ InitUi

NextExtract ==
    \/ \E t \in TopicInputs : SetTopic(t)
    \/ \E c \in ChannelInputs : SetChannelName(c)
    \/ \E i \in 1..Len(savedScripts) : LoadScript(savedScripts[i])

SpecExtract == InitExtract /\ [][NextExtract]_vars

\* ---- ScriptMode with short replies ----
ReplyArchives ==
    { << >> } \cup
    { << SavedScript(1, <<"t">>, <<"c">>, ls, 1) >> : ls \in Compositions(MaxReplyLines) }

InitScriptMode == InitDispatch /\ InitScriptWith(ReplyArchives) /\ InitFootage /\ InitUi

NextScript ==
    \/ \E t \in TopicInputs : SetTopic(t)
    \/ \E c \in ChannelInputs : SetChannelName(c)
    \/ \E i \in 1..Len(savedScripts) : LoadScript(savedScripts[i])
    \/ HandleGenerate(None)
    \/ \E k \in 1..Len(suggestions) : HandleGenerate(Some(suggestions[k]))
    \/ GenerateResolves
    \/ GenerateRejects

SpecScript == InitScriptMode /\ [][NextScript]_vars


(***************************************************************************)
(* Properties of directive extraction, checked under SpecExtract.          *)
(***************************************************************************)
\* The lines of the current body that contain the marker.
MarkerLineIdx == { i \in 1..Len(scriptLines) : scriptLines[i].hasMarker }

NonBlank(s) == \E k \in 1..Len(s) : ~IsSpace(s[k])

\* t is s without its leading and trailing white space.
IsTrimOf(t, s) ==
    \E i \in 1..(Len(s) + 1) : \E j \in (i - 1)..Len(s) :
        /\ t = SubSeq(s, i, j)
        /\ \A k \in 1..(i - 1) : IsSpace(s[k])
        /\ \A k \in (j + 1)..Len(s) : IsSpace(s[k])
        /\ t = << >> \/ (~IsSpace(t[1]) /\ ~IsSpace(t[Len(t)]))

\* What a line holds besides the marker.
Rest(l) == l.pre \o l.post

\* The marker lines that hold something besides the marker and white space.
TitledLineIdx == { i \in MarkerLineIdx : NonBlank(Rest(scriptLines[i])) }

\* The k-th smallest element of a set of line numbers.
NthOf(S, k) == CHOOSE i \in S : Cardinality({ j \in S : j <= i }) = k

\* A line of the exact form "> SUGGESTION: X" with a title X.
WellFormed(l) ==
    /\ l.hasMarker /\ l.pre = << >>
    /\ Len(l.post) >= 2 /\ l.post[1] = " " /\ NonBlank(l.post)

\* C8 (as claimed): the number of directives equals the number of lines
\* that contain the marker, and the directives follow the order of those
\* lines.
C8_OneDirectivePerMarkerLine ==
    /\ Len(suggestions) = Cardinality(MarkerLineIdx)
    /\ \A k \in 1..Len(suggestions) :
          IsTrimOf(suggestions[k], Rest(scriptLines[NthOf(MarkerLineIdx, k)]))

\* C8 (amended): the number of directives equals the number of marker lines
\* that hold something besides the marker and white space, and the
\* directives follow the order of those lines; a text with no marker line
\* yields no directive, and a text whose marker lines are exactly three
\* lines "> SUGGESTION: X" yields exactly the three titles X in source order.
C8_DirectivesOfTitledMarkerLines ==
    /\ Len(suggestions) = Cardinality(TitledLineIdx)
    /\ \A k \in 1..Len(suggestions) :
          IsTrimOf(suggestions[k], Rest(scriptLines[NthOf(TitledLineIdx, k)]))
    /\ MarkerLineIdx = {} => suggestions = << >>
    /\ (Cardinality(MarkerLineIdx) = 3
          /\ \A i \in MarkerLineIdx : WellFormed(scriptLines[i])) =>
          /\ Len(suggestions) = 3
          /\ \A k \in 1..3 :
                IsTrimOf(suggestions[k], scriptLines[NthOf(MarkerLineIdx, k)].post)

C8_Witness ==
    /\ generatedScript # << >>
    /\ Cardinality(MarkerLineIdx) = 3
    /\ \A i \in MarkerLineIdx : WellFormed(scriptLines[i])
    /\ Len(suggestions) = 3
    /\ suggestions[1] # suggestions[2]
    /\ suggestions[2] # suggestions[3]

RankOf(i) == Cardinality({ j \in TitledLineIdx : j <= i })

MaxFootageTokens == 5

FULL_OBJECT == "{\"title\":\"a\",\"url\":\"u\",\"source\":\"s\"}"
FootageTokens == { "[", "]", ",", "prose", "null", "1", "{}", FULL_OBJECT }
FootageTexts == UNION { [1..n -> FootageTokens] : n \in 0..MaxFootageTokens }
FootageReplies == { None } \cup { Some(t) : t \in FootageTexts }

\* text.match(/\[[\s\S]*\]/): from the first "[" to the last "]" after it.
BracketSpan(text) ==
    LET opens == { i \in 1..Len(text) : text[i] = "[" }
        closes == { j \in 1..Len(text) : text[j] = "]" }
    IN IF \E i \in opens, j \in closes : i < j
         THEN LET first == CHOOSE i \in opens : \A k \in opens : i <= k
                  last == CHOOSE j \in closes : \A k \in closes : k <= j
              IN Some(SubSeq(text, first, last))
         ELSE None

\* ---- JSON.parse over the tokens ----
JsValue(type, title, url, source, items) ==
    [type |-> type, title |-> title, url |-> url, source |-> source, items |-> items]
JsNull == JsValue("null", None, None, None, << >>)
JsNumber == JsValue("number", None, None, None, << >>)
JsObject(title, url, source) == JsValue("object", title, url, source, << >>)
JsArray(items) == JsValue("array", None, None, None, items)

ParseFail == [ok |-> FALSE, value |-> JsNull, rest |-> << >>]
ParseOk(v, rest) == [ok |-> TRUE, value |-> v, rest |-> rest]

RECURSIVE SkipDigits(_)
SkipDigits(toks) == IF toks # << >> /\ Head(toks) = "1" THEN SkipDigits(Tail(toks)) ELSE toks

RECURSIVE ParseValue(_)
RECURSIVE ParseElements(_, _)
ParseValue(toks) ==
    IF toks = << >> THEN ParseFail
    ELSE CASE Head(toks) = "null" -> ParseOk(JsNull, Tail(toks))
           [] Head(toks) = "1" -> ParseOk(JsNumber, SkipDigits(toks))
           [] Head(toks) = "{}" -> ParseOk(JsObject(None, None, None), Tail(toks))
           [] Head(toks) = FULL_OBJECT ->
                 ParseOk(JsObject(Some("a"), Some("u"), Some("s")), Tail(toks))
           [] Head(toks) = "[" ->
                 IF Len(toks) >= 2 /\ toks[2] = "]"
                   THEN ParseOk(JsArray(<< >>), Tail(Tail(toks)))
                   ELSE ParseElements(Tail(toks), << >>)
           [] OTHER -> ParseFail

ParseElements(toks, items) ==
    LET r == ParseValue(toks) IN
    IF ~r.ok \/ r.rest = << >> THEN ParseFail
    ELSE IF Head(r.rest) = "]" THEN ParseOk(JsArray(Append(items, r.value)), Tail(r.rest))
    ELSE IF Head(r.rest) = "," THEN ParseElements(Tail(r.rest), Append(items, r.value))
    ELSE ParseFail

\* JSON.parse: the value, or None when it throws a SyntaxError.
JSONParse(toks) ==
    LET r == ParseValue(toks) IN
    IF r.ok /\ r.rest = << >> THEN Some(r.value) ELSE None

\* ---- the body of findStockFootage ----
FootageReturn(videos) == [state |-> "resolved", videos |-> videos]

\* The catch block: console.error, return [].
FootageOnError_Rethrow == [state |-> "rejected", videos |-> << >>]

FootageOnError == FootageReturn(<< >>)

\* Reading a property of null raises a TypeError.
ItemThrows(item) == item.type = "null"

\* json.map's callback.
CoerceItem(item, query) ==
    [title |-> OrElse(item.title, query),
     url |-> OrElse(item.url, "#"),
     source |-> OrElse(item.source, "Web")]

\* The try block after the await.  threw tells whether it ended in the
\* catch block (JSON.parse or the map callback raised).
FootageTry(reply, query) ==
    LET text == IF IsSome(reply) THEN Val(reply) ELSE << >>
        jsonMatch == BracketSpan(text)
        json == JSONParse(Val(jsonMatch))
        items == Val(json).items
    IN IF ~IsSome(jsonMatch)
         THEN [threw |-> FALSE, result |-> FootageReturn(<< >>)]
       ELSE IF json = None
         THEN [threw |-> TRUE, result |-> FootageOnError]
       ELSE IF Val(json).type # "array"
         THEN [threw |-> FALSE, result |-> FootageReturn(<< >>)]
       ELSE IF \E k \in 1..Len(items) : ItemThrows(items[k])
         THEN [threw |-> TRUE, result |-> FootageOnError]
       ELSE [threw |-> FALSE,
             result |-> FootageReturn([k \in 1..Len(items) |-> CoerceItem(items[k], query)])]

FootageWaiting == [state |-> "pending", videos |-> << >>]

FindStockFootage(query) ==
    /\ fPc \in {"idle", "done"}
    /\ fQuery' = query
    /\ fRemote' = None
    /\ fConsole' = << >>
    /\ fResult' = FootageWaiting
    /\ fPc' = "waiting"
    /\ UNCHANGED <<dispatchVars, scriptVars, uiVars>>

FootageResolves ==
    /\ fPc = "waiting"
    /\ \E reply \in FootageReplies :
          /\ fRemote' = Some([ok |-> TRUE, text |-> reply])
          /\ LET try == FootageTry(reply, fQuery)
             IN /\ fResult' = try.result
                /\ fConsole' = IF try.threw
                                 THEN Append(fConsole, "Stock footage search failed:")
                                 ELSE fConsole
    /\ fPc' = "done"
    /\ UNCHANGED <<fQuery, dispatchVars, scriptVars, uiVars>>

FootageRejects ==
    /\ fPc = "waiting"
    /\ \E err \in ThrownValues : fRemote' = Some([ok |-> FALSE, text |-> None])
    /\ fResult' = FootageOnError
    /\ fConsole' = Append(fConsole, "Stock footage search failed:")
    /\ fPc' = "done"
    /\ UNCHANGED <<fQuery, dispatchVars, scriptVars, uiVars>>

NextFootage ==
    \/ \E q \in Queries : FindStockFootage(q)
    \/ FootageResolves
    \/ FootageRejects

SpecFootage == Init /\ [][NextFootage]_vars

(***************************************************************************)
(* Properties of findStockFootage, checked under SpecFootage.              *)
(***************************************************************************)
\* The reply holds a "[" with a "]" somewhere after it.
HasBracketSpan(text) ==
    \E i \in 1..Len(text) : \E j \in (i + 1)..Len(text) : text[i] = "[" /\ text[j] = "]"

\* The span of the reply parses to a JSON array.
RepliedArray ==
    /\ IsSome(fRemote) /\ Val(fRemote).ok /\ IsSome(Val(fRemote).text)
    /\ HasBracketSpan(Val(Val(fRemote).text))
    /\ LET json == JSONParse(Val(BracketSpan(Val(Val(fRemote).text))))
       IN IsSome(json) /\ Val(json).type = "array"

\* C10: when the remote call rejects, or answers with no text, with a text
\* that holds no "[" ... "]" span, with a span that is not valid JSON or
\* with a span that parses to something other than an array,
\* findStockFootage resolves to the empty list; it never rejects.
C10_NoArrayGivesEmptyList ==
    fPc = "done" =>
        /\ fResult.state = "resolved"
        /\ ~RepliedArray => fResult.videos = << >>

C10_Witness ==
    /\ fPc = "done"
    /\ IsSome(fRemote) /\ Val(fRemote).ok
    /\ Val(fRemote).text = Some(<<"[", "prose", "]">>)
    /\ fResult = [state |-> "resolved", videos |-> << >>]

\* The elements of the array the reply's span parses to.
RepliedItems == Val(JSONParse(Val(BracketSpan(Val(Val(fRemote).text))))).items

\* C11: when the span of the reply parses to a JSON array, findStockFootage
\* resolves to one record per array element, in array order, each with a
\* defined title (the element's, else the query), url (else "#") and
\* source (else "Web"), whatever the element is: object, null, number or
\* nested array.
C11_ArrayGivesOneRecordPerElement ==
    (fPc = "done" /\ RepliedArray) =>
        /\ fResult.state = "resolved"
        /\ Len(fResult.videos) = Len(RepliedItems)
        /\ \A k \in 1..Len(RepliedItems) :
              /\ k \in DOMAIN fResult.videos
              /\ fResult.videos[k].title = OrElse(RepliedItems[k].title, fQuery)
              /\ fResult.videos[k].url = OrElse(RepliedItems[k].url, "#")
              /\ fResult.videos[k].source = OrElse(RepliedItems[k].source, "Web")

(***************************************************************************)
(* The media validators: MarkdownImage and YouTubeEmbed of the chat        *)
(* bubble, ScriptImage of the script view.  URLs and captions are          *)
(* sequences of characters.  Each mounted component instance holds one     *)
(* reference (its src or url does not change while it is mounted) and      *)
(* owns at most one probe, the Image object its effect creates.            *)
(***************************************************************************)
MaxInstances == 2

LowerCase == { "a", "b", "c", "d", "e", "f", "g", "h", "i", "j", "k", "l", "m",
               "n", "o", "p", "q", "r", "s", "t", "u", "v", "w", "x", "y", "z" }
UpperCase == { "A", "B", "C", "D", "E", "F", "G", "H", "I", "J", "K", "L", "M",
               "N", "O", "P", "Q", "R", "S", "T", "U", "V", "W", "X", "Y", "Z" }
Digits == { "0", "1", "2", "3", "4", "5", "6", "7", "8", "9" }

\* [\w-]
IsIdChar(c) == c \in LowerCase \cup UpperCase \cup Digits \cup { "_", "-" }

\* JS truthiness of an optional character sequence.
TruthySeq(o) == IsSome(o) /\ Val(o) # << >>

\* a || b on an optional character sequence a.
OrElseSeq(o, d) == IF TruthySeq(o) THEN Val(o) ELSE d

\* ---- the literals of the patterns ----
WIKI_FILE == << "w", "i", "k", "i", "/", "F", "i", "l", "e", ":" >>
WIKI_IMAGE == << "w", "i", "k", "i", "/", "I", "m", "a", "g", "e", ":" >>
YOUTU_BE == << "y", "o", "u", "t", "u", ".", "b", "e", "/" >>
YOUTUBE_COM == << "y", "o", "u", "t", "u", "b", "e", ".", "c", "o", "m" >>
PATH_EMBED == << "/", "e", "m", "b", "e", "d", "/" >>
PATH_V == << "/", "v", "/" >>
PATH_WATCH == << "/", "w", "a", "t", "c", "h" >>
PATH_WATCH_V == PATH_WATCH \o << "?", "v", "=" >>
PATH_USER == << "/", "u", "s", "e", "r", "/" >>
PATH_SCREENING == << "/", "y", "t", "s", "c", "r", "e", "e", "n", "i", "n", "g",
                     "r", "o", "o", "m", "?", "v", "=" >>
PATH_SHORTS == << "/", "s", "h", "o", "r", "t", "s", "/" >>
VIDEO_ID_LENGTH == 11
PLACEHOLDER_WIDTH == 120

\* The wrapper-page test of both image components.
IsWrapperPage(src) == Includes(src, WIKI_FILE) \/ Includes(src, WIKI_IMAGE)

\* markdownComponents.a: href && (href.includes(...) || href.includes(...)).
IsYouTube(href) ==
    /\ TruthySeq(href)
    /\ \/ Includes(Val(href), YOUTUBE_COM \o PATH_WATCH)
       \/ Includes(Val(href), YOUTU_BE)

\* ---- getVideoId ----
\* ([\w-]{11}) at offset j (0-based).
IdAt(url, j) ==
    /\ j + VIDEO_ID_LENGTH <= Len(url)
    /\ \A k \in 1..VIDEO_ID_LENGTH : IsIdChar(url[j + k])

\* The alternatives of the pattern that are literals.
LiteralPrefixes ==
    { YOUTU_BE,
      YOUTUBE_COM \o PATH_EMBED, YOUTUBE_COM \o PATH_V, YOUTUBE_COM \o PATH_WATCH_V,
      YOUTUBE_COM \o PATH_SCREENING, YOUTUBE_COM \o PATH_SHORTS }

\* The offsets at which the identifier may start when the pattern is
\* matched at offset i: after a literal alternative, or after
\* youtube.com/user/ and one or more characters that are not white space.
IdOffsets(url, i) ==
    { j \in 0..Len(url) :
        /\ IdAt(url, j)
        /\ \/ \E p \in LiteralPrefixes : OccursAt(url, p, i) /\ j = i + Len(p)
           \/ /\ OccursAt(url, YOUTUBE_COM \o PATH_USER, i)
              /\ j > i + Len(YOUTUBE_COM \o PATH_USER)
              /\ \A k \in (i + Len(YOUTUBE_COM \o PATH_USER) + 1)..j : ~IsSpace(url[k]) }

\* url.match(...)[1]: the leftmost match; \S+ is greedy.
GetVideoId(url) ==
    IF ~TruthySeq(url) THEN None
    ELSE LET u == Val(url)
             starts == { i \in 0..Len(u) : IdOffsets(u, i) # { } }
         IN IF starts = { } THEN None
            ELSE LET i == CHOOSE x \in starts : \A y \in starts : x <= y
                     j == CHOOSE x \in IdOffsets(u, i) : \A y \in IdOffsets(u, i) : y <= x
                 IN Some(SubSeq(u, j + 1, j + VIDEO_ID_LENGTH))

\* ---- encodeURIComponent ----
Unreserved == LowerCase \cup UpperCase \cup Digits
                  \cup { "-", "_", ".", "!", "~", "*", "'", "(", ")" }

\* The escape of the reserved characters that occur in the captions.
PercentEncoded(c) ==
    CASE c = " " -> << "%", "2", "0" >>
      [] c = ":" -> << "%", "3", "A" >>
      [] c = "/" -> << "%", "2", "F" >>
      [] c = "&" -> << "%", "2", "6" >>
      [] OTHER -> << "%", "3", "F" >>

RECURSIVE EncodeURIComponent(_)
EncodeURIComponent(s) ==
    IF s = << >> THEN << >>
    ELSE (IF Head(s) \in Unreserved THEN << Head(s) >> ELSE PercentEncoded(Head(s)))
             \o EncodeURIComponent(Tail(s))
\* ---- the references of the model ----
HTTPS == << "h", "t", "t", "p", "s", ":", "/", "/" >>
VIDEO_ID == << "d", "Q", "w", "4", "w", "9", "W", "g", "X", "c", "Q" >>
SHORT_ID == << "d", "Q", "w", "4", "w", "9", "W", "g", "X", "c" >>
WatchUrl == HTTPS \o YOUTUBE_COM \o PATH_WATCH_V \o VIDEO_ID
ShortLinkUrl == HTTPS \o YOUTU_BE \o VIDEO_ID
EmbedUrl == HTTPS \o YOUTUBE_COM \o PATH_EMBED \o VIDEO_ID
LegacyUrl == HTTPS \o YOUTUBE_COM \o PATH_V \o VIDEO_ID
ShortsUrl == HTTPS \o YOUTUBE_COM \o PATH_SHORTS \o VIDEO_ID
WatchNoIdUrl == HTTPS \o YOUTUBE_COM \o PATH_WATCH_V \o SHORT_ID
OtherUrl == HTTPS \o << "e", ".", "o", "r", "g", "/", "v" >>
Hrefs == { "absent", "watch", "short-link", "embed", "legacy", "shorts", "watch-no-id",
           "other" }

DirectImageUrl == HTTPS \o << "e", ".", "o", "r", "g", "/", "a", ".", "j", "p", "g" >>
WikiFileUrl == HTTPS \o << "e", ".", "o", "r", "g", "/" >> \o WIKI_FILE \o << "a" >>
WikiImageUrl == HTTPS \o << "e", ".", "o", "r", "g", "/" >> \o WIKI_IMAGE \o << "a" >>
ImageSrcs == { "absent", "direct", "wiki-file", "wiki-image" }
\* A second direct image, for a src prop that changes.
OtherImageUrl == HTTPS \o << "e", ".", "o", "r", "g", "/", "b", ".", "j", "p", "g" >>
ChangedSrcs == ImageSrcs \cup { "direct-2" }

\* An instance holds its reference by name; this is the src, url or href
\* prop the name stands for.
UrlOf(ref) ==
    CASE ref = "watch" -> Some(WatchUrl)
      [] ref = "short-link" -> Some(ShortLinkUrl)
      [] ref = "embed" -> Some(EmbedUrl)
      [] ref = "legacy" -> Some(LegacyUrl)
      [] ref = "shorts" -> Some(ShortsUrl)
      [] ref = "watch-no-id" -> Some(WatchNoIdUrl)
      [] ref = "other" -> Some(OtherUrl)
      [] ref = "direct" -> Some(DirectImageUrl)
      [] ref = "direct-2" -> Some(OtherImageUrl)
      [] ref = "wiki-file" -> Some(WikiFileUrl)
      [] ref = "wiki-image" -> Some(WikiImageUrl)
      [] OTHER -> None
SrcOf(inst) == UrlOf(inst.src)

\* The tests of the components on each reference of the model.
IsYouTubeHref == [ref \in Hrefs |-> IsYouTube(UrlOf(ref))]
VideoIds == [ref \in Hrefs |-> GetVideoId(UrlOf(ref))]
WrapperSrcs == { ref \in ImageSrcs : TruthySeq(UrlOf(ref)) /\ IsWrapperPage(Val(UrlOf(ref))) }
\* const videoId = getVideoId(url)
VideoIdOf(inst) == VideoIds[inst.src]
ImageAlts == { None, Some(<< "a", " ", "b" >>) }
ImageKinds == { "MarkdownImage", "ScriptImage" }
ProbeWidths == { PLACEHOLDER_WIDTH, PLACEHOLDER_WIDTH + 1, 4 * PLACEHOLDER_WIDTH }

\* ---- a component instance ----
NoProbe == [state |-> "none", url |-> << >>, width |-> 0]
\* new Image() with src set and both callbacks attached.
NewProbe(url) == [state |-> "outstanding", url |-> url, width |-> 0]

\* useState('loading') / useState(null): the instance as first rendered.
\* probe is the Image object of the latest run of the effect, earlier the
\* outstanding Image objects of the runs before it.
\* A link that markdownComponents.a does not hand to YouTubeEmbed is a
\* plain anchor: it has no state and no effect.
NewInstance(kind, src, alt) ==
    [kind |-> kind, src |-> src, alt |-> alt,
     status |-> "loading", isValid |-> None,
     effect |-> IF kind = "a" THEN "none" ELSE "pending",
     probe |-> NoProbe, earlier |-> << >>, mounted |-> TRUE]

THUMBNAIL_HOST == << "i", ".", "y", "t", "i", "m", "g", ".", "c", "o", "m", "/", "v", "i", "/" >>
THUMBNAIL_FILE == << "/", "h", "q", "d", "e", "f", "a", "u", "l", "t", ".", "j", "p", "g" >>
ThumbnailUrl(videoId) == HTTPS \o THUMBNAIL_HOST \o videoId \o THUMBNAIL_FILE

\* setIsValid(img.width > 120)
IsValidWidth_Inclusive(width) == width >= PLACEHOLDER_WIDTH

IsValidWidth(width) == width > PLACEHOLDER_WIDTH

\* ---- what an instance renders ----
Rendered(element, target) == [element |-> element, target |-> target]
IMAGE_FALLBACK_CAPTION == << "i", "m", "a", "g", "e" >>

\* MarkdownImageComponent, from the wrapper test down.
RenderMarkdownImage(inst) ==
    IF inst.src \in WrapperSrcs
      THEN Rendered("link-card", Val(SrcOf(inst)))
    ELSE IF inst.status = "error" \/ ~TruthySeq(SrcOf(inst))
      THEN Rendered("search-card",
                    EncodeURIComponent(OrElseSeq(inst.alt, IMAGE_FALLBACK_CAPTION)))
    ELSE IF inst.status = "loading" THEN Rendered("placeholder", << >>)
    ELSE Rendered("img", Val(SrcOf(inst)))

\* ScriptImage.
RenderScriptImage_ShowAlways(inst) ==
    IF ~TruthySeq(SrcOf(inst)) THEN Rendered("nothing", << >>)
    ELSE IF inst.status = "loading" THEN Rendered("placeholder", << >>)
    ELSE Rendered("img", Val(SrcOf(inst)))

RenderScriptImage(inst) ==
    IF inst.status = "error" \/ ~TruthySeq(SrcOf(inst)) THEN Rendered("nothing", << >>)
    ELSE IF inst.status = "loading" THEN Rendered("placeholder", << >>)
    ELSE Rendered("img", Val(SrcOf(inst)))

\* YouTubeEmbedComponent: what follows the anchor.
RenderYouTubeEmbed(inst) ==
    LET videoId == VideoIdOf(inst) IN
    IF ~IsSome(videoId) THEN Rendered("nothing", << >>)
    ELSE IF inst.isValid = Some(FALSE) THEN Rendered("restricted-card", << >>)
    ELSE IF inst.isValid = None THEN Rendered("verifying", << >>)
    ELSE Rendered("iframe", Val(videoId))

\* What a mounted instance shows.
Render(inst) ==
    CASE inst.kind = "MarkdownImage" -> RenderMarkdownImage(inst)
      [] inst.kind = "ScriptImage" -> RenderScriptImage(inst)
      [] inst.kind = "YouTubeEmbed" -> RenderYouTubeEmbed(inst)
      [] OTHER -> Rendered("nothing", << >>)

\* ---- the effects ----
\* The effect of MarkdownImageComponent and of ScriptImage.
ImageEffect_ProbeWrappers(inst) ==
    IF ~TruthySeq(SrcOf(inst))
      THEN [inst EXCEPT !.status = "error", !.effect = "ran"]
      ELSE [inst EXCEPT !.probe = NewProbe(Val(SrcOf(inst))), !.effect = "ran"]

ImageEffect(inst) ==
    IF ~TruthySeq(SrcOf(inst)) \/ inst.src \in WrapperSrcs
      THEN [inst EXCEPT !.status = "error", !.effect = "ran"]
      ELSE [inst EXCEPT !.probe = NewProbe(Val(SrcOf(inst))), !.effect = "ran"]

\* The effect of YouTubeEmbedComponent.
VideoEffect(inst) ==
    LET videoId == VideoIdOf(inst) IN
    IF ~IsSome(videoId)
      THEN [inst EXCEPT !.isValid = Some(FALSE), !.effect = "ran"]
      ELSE [inst EXCEPT !.probe = NewProbe(ThumbnailUrl(Val(videoId))), !.effect = "ran"]

\* img.onload / img.onerror of an instance's probe.  A state setter of an
\* unmounted instance changes nothing.
OnLoad_AfterUnmount(inst, width) ==
    LET done == [inst EXCEPT !.probe.state = "load", !.probe.width = width] IN
    IF inst.kind = "YouTubeEmbed"
      THEN [done EXCEPT !.isValid = Some(IsValidWidth(width))]
      ELSE [done EXCEPT !.status = "loaded"]

OnLoad(inst, width) ==
    LET done == [inst EXCEPT !.probe.state = "load", !.probe.width = width] IN
    IF ~inst.mounted THEN done
    ELSE IF inst.kind = "YouTubeEmbed"
      THEN [done EXCEPT !.isValid = Some(IsValidWidth(width))]
      ELSE [done EXCEPT !.status = "loaded"]

OnError(inst) ==
    LET done == [inst EXCEPT !.probe.state = "error"] IN
    IF ~inst.mounted THEN done
    ELSE IF inst.kind = "YouTubeEmbed"
      THEN [done EXCEPT !.isValid = Some(FALSE)]
      ELSE [done EXCEPT !.status = "error"]

\* ---- actions ----
\* <MarkdownImage .../> or <ScriptImage .../> is mounted.
MountImage(kind, src, alt) ==
    /\ Len(instances) < MaxInstances
    /\ instances' = Append(instances, NewInstance(kind, src, alt))
    /\ UNCHANGED <<dispatchVars, scriptVars, footageVars, chatVars, transcribeVars, workerVars>>

\* markdownComponents.a renders a link.
MountLink(href) ==
    /\ Len(instances) < MaxInstances
    /\ instances' = Append(instances,
          NewInstance(IF IsYouTubeHref[href] THEN "YouTubeEmbed" ELSE "a", href, None))
    /\ UNCHANGED <<dispatchVars, scriptVars, footageVars, chatVars, transcribeVars, workerVars>>

\* The effect of a mounted instance runs, once, after its first render.
RunEffect(i) ==
    /\ instances[i].mounted /\ instances[i].effect = "pending"
    /\ instances' = [instances EXCEPT
          ![i] = IF instances[i].kind = "YouTubeEmbed"
                   THEN VideoEffect(instances[i]) ELSE ImageEffect(instances[i])]
    /\ UNCHANGED <<dispatchVars, scriptVars, footageVars, chatVars, transcribeVars, workerVars>>

ProbeLoads(i) ==
    /\ instances[i].probe.state = "outstanding"
    /\ \E width \in ProbeWidths :
          instances' = [instances EXCEPT
              ![i] = OnLoad(instances[i],
                            IF instances[i].kind = "YouTubeEmbed" THEN width ELSE 0)]
    /\ UNCHANGED <<dispatchVars, scriptVars, footageVars, chatVars, transcribeVars, workerVars>>

\* One status per URL instead of one per instance.
ProbeFails_StatusPerUrl(i) ==
    /\ instances[i].probe.state = "outstanding"
    /\ instances' = [k \in 1..Len(instances) |->
          IF k = i THEN OnError(instances[i])
          ELSE IF instances[k].src = instances[i].src /\ instances[k].kind = instances[i].kind
            THEN [instances[k] EXCEPT !.status = "error", !.isValid = Some(FALSE)]
          ELSE instances[k]]
    /\ UNCHANGED <<dispatchVars, scriptVars, footageVars, chatVars, transcribeVars, workerVars>>

ProbeFails(i) ==
    /\ instances[i].probe.state = "outstanding"
    /\ instances' = [instances EXCEPT ![i] = OnError(instances[i])]
    /\ UNCHANGED <<dispatchVars, scriptVars, footageVars, chatVars, transcribeVars, workerVars>>

\* The parent stops rendering the instance; pending effects run first.
Unmount(i) ==
    /\ instances[i].mounted /\ instances[i].effect # "pending"
    /\ instances' = [instances EXCEPT ![i].mounted = FALSE]
    /\ UNCHANGED <<dispatchVars, scriptVars, footageVars, chatVars, transcribeVars, workerVars>>

NextMedia ==
    \/ \E kind \in ImageKinds, src \in ImageSrcs, alt \in ImageAlts :
          MountImage(kind, src, alt)
    \/ \E href \in Hrefs : MountLink(href)
    \/ \E i \in 1..Len(instances) : RunEffect(i)
    \/ \E i \in 1..Len(instances) : ProbeLoads(i)
    \/ \E i \in 1..Len(instances) : ProbeFails(i)
    \/ \E i \in 1..Len(instances) : Unmount(i)

SpecMedia == Init /\ [][NextMedia]_vars

(***************************************************************************)
(* Properties of the media validators, checked under SpecMedia.            *)
(***************************************************************************)
InstanceIds == 1..Len(instances)
ImageIds == { i \in InstanceIds : instances[i].kind \in ImageKinds }
WrapperIds == { i \in ImageIds : instances[i].src \in { "wiki-file", "wiki-image" } }
DirectIds == ImageIds \ WrapperIds
\* The link instances from whose URL getVideoId extracts an identifier.
LinkIds == { i \in InstanceIds : instances[i].kind \in { "a", "YouTubeEmbed" } }
IdentifiedIds == { i \in LinkIds : IsSome(VideoIds[instances[i].src]) }
IdentifiedEmbedIds == { i \in IdentifiedIds : instances[i].kind = "YouTubeEmbed" }

\* No probe was started and the state went from loading to error only.
WrapperNeverProbed(i) ==
    /\ instances[i].probe.state = "none"
    /\ instances[i].status # "loaded"
    /\ instances[i].effect = "ran" => instances[i].status = "error"

StatusFollowsProbe(i) ==
    LET inst == instances[i] IN
    /\ inst.effect = "pending" => inst.status = "loading"
    /\ inst.status = "loaded" <=> inst.probe.state = "load"
    /\ inst.status = "error" <=>
          \/ inst.probe.state = "error"
          \/ inst.effect = "ran" /\ inst.src = "absent"
    /\ Render(inst).element = "img" => inst.status = "loaded"

\* The caption-seeded image-search card.
SearchCard(inst) ==
    Rendered("search-card",
             IF inst.alt = None THEN << "i", "m", "a", "g", "e" >>
                                ELSE << "a", "%", "2", "0", "b" >>)

C14_PlaceholderThumbnailNeverEmbeds ==
    \A i \in IdentifiedEmbedIds :
        LET inst == instances[i] IN
        inst.mounted =>
            /\ inst.isValid = Some(TRUE) <=>
                  (inst.probe.state = "load" /\ inst.probe.width > 120)
            /\ inst.isValid = Some(FALSE) <=>
                  \/ inst.probe.state = "error"
                  \/ inst.probe.state = "load" /\ inst.probe.width <= 120
            /\ Render(inst).element = "iframe" <=> inst.isValid = Some(TRUE)

C14_Witness ==
    \E i \in IdentifiedEmbedIds :
        /\ instances[i].mounted
        /\ instances[i].probe.state = "load" /\ instances[i].probe.width = 120
        /\ Render(instances[i]).element = "restricted-card"

\* C15: every link whose URL has a supported shape with an 11-character
\* identifier is handed to YouTubeEmbed and, once its effect has run, has
\* a thumbnail probe; a link without an extractable identifier gets no
\* probe and renders nothing beyond the anchor.
C15_EveryIdentifiedLinkIsProbed ==
    /\ \A i \in IdentifiedIds :
          /\ instances[i].kind = "YouTubeEmbed"
          /\ instances[i].effect = "ran" => instances[i].probe.state # "none"
    /\ \A i \in LinkIds \ IdentifiedIds :
          /\ instances[i].probe.state = "none"
          /\ instances[i].mounted => Render(instances[i]).element = "nothing"

\* The probe of instance j completes in this step.
ProbeCompletes(j) ==
    /\ instances[j].probe.state = "outstanding"
    /\ instances'[j].probe.state # "outstanding"

\* The state an instance ends in, as decided by the outcome of its probe.
TerminalOfOwnProbe(inst) ==
    IF inst.kind = "YouTubeEmbed"
      THEN inst.isValid = Some(inst.probe.state = "load" /\ inst.probe.width > 120)
      ELSE inst.status = (IF inst.probe.state = "load" THEN "loaded" ELSE "error")

\* C19: whatever references are mounted together and in whatever order
\* their probes complete, a probe completion changes no other instance,
\* and the terminal state it gives its own mounted instance is decided by
\* its own outcome alone.
C19_ProbesAreIndependent ==
    [][\A j \in 1..Len(instances) :
          ProbeCompletes(j) =>
              /\ \A i \in (1..Len(instances)) \ {j} : instances'[i] = instances[i]
              /\ instances[j].mounted => TerminalOfOwnProbe(instances'[j])]_vars

C19_Witness ==
    /\ Len(instances) = 2
    /\ instances[1].mounted /\ instances[2].mounted
    /\ instances[1].kind = instances[2].kind /\ instances[1].src = instances[2].src
    /\ instances[1].probe.state = "outstanding" /\ instances[1].status = "loading"
    /\ instances[2].probe.state = "error" /\ instances[2].status = "error"

\* Instance n mounts the reference of an earlier, unmounted instance.
IsRemount(n) ==
    \E j \in 1..(n - 1) :
        /\ ~instances[j].mounted
        /\ instances[j].kind = instances[n].kind
        /\ instances[j].src = instances[n].src

\* C20: the result of a probe whose component has unmounted changes the
\* state of no instance, and a remount of the reference starts from
\* loading, without a probe, and gets a probe of its own when its effect
\* runs.
C20_LateProbeResultIsDiscarded ==
    [][/\ \A j \in 1..Len(instances) :
             (ProbeCompletes(j) /\ ~instances[j].mounted) =>
                 \A i \in 1..Len(instances) :
                     /\ instances'[i].status = instances[i].status
                     /\ instances'[i].isValid = instances[i].isValid
       /\ Len(instances') > Len(instances) =>
             LET new == instances'[Len(instances')] IN
             /\ new.mounted /\ new.status = "loading" /\ new.isValid = None
             /\ new.probe.state = "none"
       /\ \A n \in 1..Len(instances) :
             (IsRemount(n) /\ instances[n].effect = "pending" /\ instances'[n].effect = "ran") =>
                 (instances'[n].probe.state = "outstanding" <=>
                      IF instances[n].kind = "YouTubeEmbed"
                        THEN IsSome(VideoIds[instances[n].src])
                        ELSE instances[n].src = "direct")]_vars

C20_Witness ==
    /\ Len(instances) = 2
    /\ ~instances[1].mounted /\ instances[1].probe.state = "load"
    /\ instances[1].status = "loading" /\ instances[1].isValid = None
    /\ instances[2].mounted
    /\ instances[2].kind = instances[1].kind /\ instances[2].src = instances[1].src
    /\ instances[2].probe.state = "outstanding"

(***************************************************************************)
(* ChatMode: the archive of chat sessions.  The conversation is a prop     *)
(* owned by the parent; the archive list is component state, loaded from   *)
(* localStorage when the component mounts.                                 *)
(***************************************************************************)
\* At most MaxSessions records in the two archives together.
MaxSessions == 2
MaxClock == 11

TITLE_LIMIT == 40
ELLIPSIS == << ".", ".", "." >>
UNTITLED == << "U", "n", "t", "i", "t", "l", "e", "d", " ", "I", "n", "v", "e", "s",
               "t", "i", "g", "a", "t", "i", "o", "n" >>

\* An optional character sequence as a JavaScript value.
JOptional(o) == IF IsSome(o) THEN JString(Val(o)) ELSE JUndefined

\* The user message handleSend builds.
UserMessage(id, text, imagePreview, timestamp) ==
    JObjectOf(<< Prop("id", JString(ToDigits(id))),
                 Prop("role", JString(<< "u", "s", "e", "r" >>)),
                 Prop("text", JString(text)),
                 Prop("imageUrl", IF TruthySeq(imagePreview) THEN JString(Val(imagePreview))
                                                             ELSE JUndefined),
                 Prop("timestamp", JNumber(timestamp)) >>)

\* One grounding chunk as handleSend maps it.
Source(title, uri) ==
    JObjectOf(<< Prop("title", JOptional(title)), Prop("uri", JOptional(uri)) >>)

\* The bot message handleSend builds from a response.
BotMessage(id, text, sources, timestamp) ==
    JObjectOf(<< Prop("id", JString(ToDigits(id))),
                 Prop("role", JString(<< "m", "o", "d", "e", "l" >>)),
                 Prop("text", JString(text)),
                 Prop("timestamp", JNumber(timestamp)),
                 Prop("sources",
                      IF IsSome(sources)
                        THEN JArrayOf(SelectSeq(Val(sources),
                                                LAMBDA s : Get(s, "uri").type = "string"
                                                           /\ Get(s, "uri").v # << >>))
                        ELSE JUndefined) >>)

\* ---- the conversations the parent may hand to the component ----
LongText == [k \in 1..(TITLE_LIMIT + 1) |-> "x"]
LimitText == [k \in 1..TITLE_LIMIT |-> "x"]
QuotedText == << "a", "\"", "\\", "\n", "b" >>
DataUrl == << "d", "a", "t", "a", ":", "x" >>
SourceUri == << "u" >>
Conversations ==
    { << >>,
      << UserMessage(1, << "h", "i" >>, None, 1) >>,
      << UserMessage(2, << >>, Some(DataUrl), 2),
         BotMessage(3, LimitText, None, 3) >>,
      << UserMessage(4, LongText, None, 4),
         BotMessage(5, QuotedText,
                    Some(<< Source(None, Some(SourceUri)), Source(Some(<< "t" >>), None) >>),
                    6) >>,
      << UserMessage(7, LimitText, None, 7) >>,
      << UserMessage(8, QuotedText, Some(DataUrl), 8) >> }

\* ---- saveCurrentSession ----
\* text.slice(0, 40) + (text.length > 40 ? '...' : '')
SessionTitle(text) ==
    IF Len(text) > TITLE_LIMIT THEN SubSeq(text, 1, TITLE_LIMIT) \o ELLIPSIS ELSE text

Session(id, msgs, timestamp) ==
    LET title == SessionTitle(Get(msgs[1], "text").v) IN
    JObjectOf(<< Prop("id", JString(ToDigits(id))),
                 Prop("title", JString(IF title # << >> THEN title ELSE UNTITLED)),
                 Prop("messages", JArrayOf(msgs)),
                 Prop("timestamp", JNumber(timestamp)) >>)

\* [session, ...archives]
NewArchives_Appended(session, list) == Append(list, session)

NewArchives(session, list) == << session >> \o list

\* The mount effect: the stored list, or the initial [] when nothing is
\* stored or the stored text does not parse.
LoadArchives(stored) ==
    IF IsSome(stored) /\ IsSome(ParseStored(Val(stored)))
      THEN Val(ParseStored(Val(stored))).v
      ELSE << >>

\* Date.now() is read for the id and again for the timestamp.
SaveCurrentSession ==
    /\ messages # << >>
    /\ Len(archives) + Len(savedScripts) < MaxSessions
    /\ \E id \in now..MaxClock : \E timestamp \in id..MaxClock :
          /\ id <= now + 1 /\ timestamp <= id + 1
          /\ now' = timestamp
          /\ archives' = NewArchives(Session(id, messages, timestamp), archives)
    /\ chatStore' = Some(Stringify(JArrayOf(archives')))
    /\ isArchivesOpen' = TRUE
    /\ UNCHANGED <<messages, isLoading, send>>
    /\ UNCHANGED <<dispatchVars, scriptVars, footageVars, mediaVars, transcribeVars, workerVars>>

\* archives.filter(a => a.id !== id)
WithoutSession(list, id) == SelectSeq(list, LAMBDA a : Get(a, "id").v # id)

\* deleteSession, from the delete button of an entry of the archive list.
DeleteSession(id) ==
    /\ archives' = WithoutSession(archives, id)
    /\ chatStore' = Some(Stringify(JArrayOf(archives')))
    /\ UNCHANGED <<messages, isArchivesOpen, now, isLoading, send>>
    /\ UNCHANGED <<dispatchVars, scriptVars, footageVars, mediaVars, transcribeVars, workerVars>>

\* loadSession
LoadSession(session) ==
    /\ messages' = Get(session, "messages").v
    /\ isArchivesOpen' = FALSE
    /\ UNCHANGED <<archives, chatStore, now, isLoading, send>>
    /\ UNCHANGED <<dispatchVars, scriptVars, footageVars, mediaVars, transcribeVars, workerVars>>

\* The archive button.
ToggleArchives ==
    /\ isArchivesOpen' = ~isArchivesOpen
    /\ UNCHANGED <<messages, archives, chatStore, now, isLoading, send>>
    /\ UNCHANGED <<dispatchVars, scriptVars, footageVars, mediaVars, transcribeVars, workerVars>>

\* A fresh ChatMode instance mounts (after a page reload or a change of
\* view) while no handleSend call is in progress: its state is initial and
\* its mount effect reads the store.
MountChatMode ==
    /\ send.pc = "idle"
    /\ archives' = LoadArchives(chatStore)
    /\ isArchivesOpen' = FALSE
    /\ isLoading' = FALSE
    /\ UNCHANGED <<messages, chatStore, now, send>>
    /\ UNCHANGED <<dispatchVars, scriptVars, footageVars, mediaVars, transcribeVars, workerVars>>

InitChatMode ==
    /\ InitDispatch /\ InitScript /\ InitFootage /\ InitMedia /\ InitTranscribe /\ InitWorker
    /\ messages \in Conversations
    /\ archives = << >>
    /\ isArchivesOpen = FALSE
    /\ chatStore = None
    /\ now = 9
    /\ isLoading = FALSE
    /\ send = [pc |-> "idle"]

NextChat ==
    \/ SaveCurrentSession
    \/ \E k \in 1..Len(archives) : LoadSession(archives[k])
    \/ \E k \in 1..Len(archives) : DeleteSession(Get(archives[k], "id").v)
    \/ ToggleArchives
    \/ MountChatMode

SpecChat == InitChatMode /\ [][NextChat]_vars

(***************************************************************************)
(* Properties of the chat archive, checked under SpecChat.                 *)
(***************************************************************************)
Keys(obj) == { obj.v[k].key : k \in 1..Len(obj.v) }

\* Two values no read can tell apart: an absent property and a property
\* holding undefined both read as undefined.
RECURSIVE SameValue(_, _)
SameValue(a, b) ==
    /\ a.type = b.type
    /\ CASE a.type = "object" ->
               \A key \in Keys(a) \cup Keys(b) : SameValue(Get(a, key), Get(b, key))
         [] a.type = "array" ->
               /\ Len(a.v) = Len(b.v)
               /\ \A k \in 1..Len(a.v) : SameValue(a.v[k], b.v[k])
         [] OTHER -> a.v = b.v

\* The same sessions in the same order: id, title, messages, timestamp.
SameSessions(xs, ys) ==
    /\ Len(xs) = Len(ys)
    /\ \A k \in 1..Len(xs) :
          \A key \in { "id", "title", "messages", "timestamp" } :
              SameValue(Get(xs[k], key), Get(ys[k], key))

\* C16: what a fresh component instance loads from the store is the
\* session list the component holds (every id, title, message list and
\* timestamp, in the same order), and a save puts the session of the
\* current conversation first, before the sessions that were there.
C16_SavedSessionsRoundTrip ==
    [][IsSome(chatStore') =>
          \A loaded \in { LoadArchives(chatStore') } :
              /\ SameSessions(loaded, archives')
              /\ Len(archives') > Len(archives) =>
                    /\ Len(loaded) = Len(archives) + 1
                    /\ SameValue(Get(loaded[1], "messages"), JArrayOf(messages))
                    /\ Get(loaded[1], "timestamp") = JNumber(now')
                    /\ Get(loaded[1], "id").type = "string"
                    /\ Get(loaded[1], "title").type = "string"
                    /\ SameSessions(Tail(loaded), archives)]_vars

\* Two sessions saved and then loaded by a fresh instance; the older one
\* holds a message whose imageUrl was undefined and another with sources.
C16_Witness ==
    /\ Len(archives) = 2
    /\ IsSome(chatStore) /\ archives = LoadArchives(chatStore)
    /\ Get(archives[1], "timestamp").v > Get(archives[2], "timestamp").v
    /\ \E k \in 1..2 :
          /\ Len(Get(archives[k], "messages").v) = 2
          /\ "imageUrl" \notin Keys(Get(archives[k], "messages").v[1])
          /\ Get(Get(archives[k], "messages").v[2], "sources").type = "array"
          /\ Get(archives[k], "title").v = SubSeq(LongText, 1, 40) \o << ".", ".", "." >>

(***************************************************************************)
(* transcribeVideo.                                                        *)
(***************************************************************************)
VISION_PROTOCOL == "gemini-3-flash-preview"
NO_TRANSCRIPTION == "[No transcription generated]"
UNKNOWN_ERROR == << "U", "n", "k", "n", "o", "w", "n", " ", "e", "r", "r", "o", "r" >>

VideoDatas == { "VIDEO1", "VIDEO2", "VIDEO3" }
VideoMimeTypes == { "video/mp4", "video/webm", "video/quicktime" }

\* What the remote call can throw: null/undefined, or an object with an
\* optional message.
TranscribeErrMessages ==
    { << >>,
      << "e" >>,
      << "4", "1", "3" >>,
      << "e", " ", "4", "1", "3" >>,
      << "4", "0", "4" >>,
      << "4", "0", "4", " ", "e" >>,
      << "4", "0", "4", " ", "4", "1", "3" >>,
      << "4", "1" >>,
      << "4", "0", "3" >> }
TranscribeThrown ==
    { [kind |-> "null", message |-> None, status |-> None],
      [kind |-> "undefined", message |-> None, status |-> None] } \cup
    [kind : {"object"},
     message : {None} \cup {Some(m) : m \in TranscribeErrMessages},
     status : {None}]

\* The single generateContent request.
TranscribeRequest(videoBase64, mimeType) ==
    [model |-> VISION_PROTOCOL,
     parts |-> << [inlineData |-> Some([data |-> videoBase64, mimeType |-> mimeType]),
                   text |-> None],
                  [inlineData |-> None, text |-> Some("transcription prompt")] >>]

\* ---- how the returned promise settles ----
TranscribePending == [state |-> "pending", text |-> "", error |-> "", detail |-> << >>]
TranscribeReturn(text) == [state |-> "resolved", text |-> text, error |-> "", detail |-> << >>]
\* throw new Error(...): which of the three messages, and for the generic
\* one the text appended to it.
TranscribeThrow(thrown, detail) ==
    [state |-> "rejected", text |-> "", error |-> thrown, detail |-> detail]

\* The catch block, after console.error.  Reading .message of null or
\* undefined raises a TypeError, which leaves the function instead.
TranscribeCatch(err) ==
    IF err.kind # "object" THEN TranscribeThrow("TypeError", << >>)
    ELSE IF IsSome(err.message) /\ Includes(Val(err.message), << "4", "1", "3" >>)
      THEN TranscribeThrow("too-large", << >>)
    ELSE IF IsSome(err.message) /\ Includes(Val(err.message), << "4", "0", "4" >>)
      THEN TranscribeThrow("model-not-found", << >>)
    ELSE TranscribeThrow("failed", OrElseSeq(err.message, UNKNOWN_ERROR))

TranscribeVideo(videoBase64, mimeType) ==
    /\ tPc \in {"idle", "done"}
    /\ tRequests' = << TranscribeRequest(videoBase64, mimeType) >>
    /\ tRemote' = None
    /\ tConsole' = << >>
    /\ tResult' = TranscribePending
    /\ tPc' = "waiting"
    /\ UNCHANGED <<dispatchVars, scriptVars, footageVars, mediaVars, chatVars, workerVars>>

TranscribeResolves ==
    /\ tPc = "waiting"
    /\ \E text \in RemoteTexts :
          /\ tRemote' = Some([ok |-> TRUE, text |-> text, err |-> None])
          /\ tResult' = TranscribeReturn(OrElse(text, NO_TRANSCRIPTION))
    /\ tPc' = "done"
    /\ UNCHANGED <<tRequests, tConsole>>
    /\ UNCHANGED <<dispatchVars, scriptVars, footageVars, mediaVars, chatVars, workerVars>>

TranscribeRejects ==
    /\ tPc = "waiting"
    /\ \E err \in TranscribeThrown :
          /\ tRemote' = Some([ok |-> FALSE, text |-> None, err |-> Some(err)])
          /\ tResult' = TranscribeCatch(err)
    /\ tConsole' = Append(tConsole, "Transcription failed:")
    /\ tPc' = "done"
    /\ UNCHANGED tRequests
    /\ UNCHANGED <<dispatchVars, scriptVars, footageVars, mediaVars, chatVars, workerVars>>

NextTranscribe ==
    \/ \E v \in VideoDatas, m \in VideoMimeTypes : TranscribeVideo(v, m)
    \/ TranscribeResolves
    \/ TranscribeRejects

SpecTranscribe == Init /\ [][NextTranscribe]_vars

(***************************************************************************)
(* Properties of transcribeVideo, checked under SpecTranscribe.            *)
(***************************************************************************)
TranscribeFailure == Val(Val(tRemote).err)
FailureMentions(code) ==
    /\ TranscribeFailure.kind = "object"
    /\ IsSome(TranscribeFailure.message)
    /\ Includes(Val(TranscribeFailure.message), code)

\* C17: a call issues exactly one request, to the vision tier; when the
\* request fails the call rejects, with the oversized-payload error if
\* the failure message contains "413", else with the model-unavailable
\* error if it contains "404", else with the generic error; when the
\* request succeeds with no text the call resolves to the placeholder.
C17_SingleAttemptTypedErrors ==
    /\ Len(tRequests) <= 1
    /\ \A k \in 1..Len(tRequests) : tRequests[k].model = VISION_PROTOCOL
    /\ tPc = "done" =>
          /\ Len(tRequests) = 1
          /\ Val(tRemote).ok =>
                /\ tResult.state = "resolved"
                /\ ~TruthyStr(Val(tRemote).text) => tResult.text = "[No transcription generated]"
          /\ ~Val(tRemote).ok =>
                /\ tResult.state = "rejected"
                /\ tResult.error =
                      IF FailureMentions(<< "4", "1", "3" >>) THEN "too-large"
                      ELSE IF FailureMentions(<< "4", "0", "4" >>) THEN "model-not-found"
                      ELSE "failed"

UNTITLED_CASE == << "U", "n", "t", "i", "t", "l", "e", "d", " ", "C", "a", "s", "e" >>

\* The record saveScript builds; Date.now() is read for the id and again
\* for the timestamp.
NewScript(id, timestamp) ==
    [id |-> ToDigits(id),
     title |-> IF params.topic # << >> THEN params.topic ELSE UNTITLED_CASE,
     channel |-> params.channelName,
     content |-> generatedScript,
     timestamp |-> timestamp,
     lines |-> scriptLines]

\* saveScript
SaveScript ==
    /\ generatedScript # << >>
    /\ Len(archives) + Len(savedScripts) < MaxSessions
    /\ \E id \in now..MaxClock : \E timestamp \in id..MaxClock :
          /\ id <= now + 1 /\ timestamp <= id + 1
          /\ now' = timestamp
          /\ savedScripts' = << NewScript(id, timestamp) >> \o savedScripts
    /\ scriptStore' = PersistScripts(savedScripts')
    /\ UNCHANGED <<params, generatedScript, suggestions, isGenerating, compiling, scriptLines>>
    /\ UNCHANGED <<messages, archives, isArchivesOpen, chatStore, isLoading, send>>
    /\ UNCHANGED <<dispatchVars, footageVars, mediaVars, transcribeVars, workerVars>>

\* savedScripts.filter(s => s.id !== id)
WithoutScript(list, id) == SelectSeq(list, LAMBDA s : s.id # id)

\* deleteScript, from the delete button of an entry of the archive list.
DeleteScript(id) ==
    /\ savedScripts' = WithoutScript(savedScripts, id)
    /\ scriptStore' = PersistScripts(savedScripts')
    /\ UNCHANGED <<params, generatedScript, suggestions, isGenerating, compiling, scriptLines>>
    /\ UNCHANGED <<dispatchVars, footageVars, uiVars>>

\* ---- both archives: a conversation was held and a script compiled ----
ArchiveBodies ==
    { << MarkerLine(<< >>, << " ", "A" >>) >>,
      << BodyLine(<< "x" >>), MarkerLine(<< >>, << " ", "A" >>) >> }

ArchiveConversations ==
    { c \in Conversations : Len(c) = 2 \/ (Len(c) = 1 /\ Get(c[1], "text").v = QuotedText) }

InitArchive ==
    /\ InitDispatch /\ InitFootage /\ InitMedia /\ InitTranscribe /\ InitWorker
    /\ messages \in ArchiveConversations
    /\ archives = << >>
    /\ isArchivesOpen = FALSE
    /\ chatStore = None
    /\ now = 9
    /\ isLoading = FALSE
    /\ send = [pc |-> "idle"]
    /\ \E t \in TopicInputs : params = [topic |-> t, channelName |-> << "c" >>]
    /\ scriptLines \in ArchiveBodies
    /\ generatedScript = JoinLines(scriptLines)
    /\ suggestions = ParseSuggestions(generatedScript)
    /\ isGenerating = FALSE
    /\ compiling = 0
    /\ savedScripts = << >>
    /\ scriptStore = None

NextArchive ==
    \/ SaveCurrentSession
    \/ \E k \in 1..Len(archives) : DeleteSession(Get(archives[k], "id").v)
    \/ MountChatMode
    \/ SaveScript
    \/ \E k \in 1..Len(savedScripts) : DeleteScript(savedScripts[k].id)

SpecArchive == InitArchive /\ [][NextArchive]_vars

(***************************************************************************)
(* Properties of the archives, checked under SpecArchive.                  *)
(***************************************************************************)
\* The list a load of the script store gives.
LoadScripts(stored) ==
    IF IsSome(stored) /\ IsSome(ParseStored(Val(stored)))
      THEN Val(ParseStored(Val(stored))).v
      ELSE << >>

\* C21: in every state the text under each key is the serialization of the
\* whole list in memory, and the list a load of the store gives is the list
\* in memory (record by record, in order); nothing stored means an empty
\* list.
C21_StoreHoldsTheListInMemory ==
    /\ IF IsSome(chatStore)
         THEN /\ chatStore = Some(Stringify(JArrayOf(archives)))
              /\ SameSessions(LoadArchives(chatStore), archives)
         ELSE archives = << >>
    /\ IF IsSome(scriptStore)
         THEN /\ scriptStore = Some(Stringify(ScriptObjects(savedScripts)))
              /\ LoadScripts(scriptStore) = ScriptObjects(savedScripts).v
         ELSE savedScripts = << >>

\* The only session was deleted, which leaves "[]" in the chat store, and
\* two scripts were saved.
C21_Witness ==
    /\ archives = << >> /\ IsSome(chatStore)
    /\ Len(savedScripts) = 2
    /\ savedScripts[1].timestamp > savedScripts[2].timestamp

\* C28: in each archive list the ids are pairwise distinct, and a delete
\* removes exactly one record and leaves the others as they were, in order.
C28_ArchiveIdsAreDistinct ==
    [][/\ \A i, j \in 1..Len(archives') :
             i # j => Get(archives'[i], "id") # Get(archives'[j], "id")
       /\ \A i, j \in 1..Len(savedScripts') :
             i # j => savedScripts'[i].id # savedScripts'[j].id
       /\ Len(archives') < Len(archives) =>
             \E k \in 1..Len(archives) :
                 archives' = SubSeq(archives, 1, k - 1) \o SubSeq(archives, k + 1, Len(archives))
       /\ Len(savedScripts') < Len(savedScripts) =>
             \E k \in 1..Len(savedScripts) :
                 savedScripts' = SubSeq(savedScripts, 1, k - 1)
                                 \o SubSeq(savedScripts, k + 1, Len(savedScripts))]_vars

(***************************************************************************)
(* ChatMode: handleSend.  One call is followed from the click to the end   *)
(* of its finally block; the busy flag keeps a second call from starting.  *)
(***************************************************************************)
MaxMessages == 4

SendTexts == { << "q" >>, << " " >> }
\* The attachment state at the click: no file, a file whose preview is not
\* read yet (selectedImage only), or a file with its preview.
Attachments == { "none", "selected", "previewed" }
ReplySources ==
    { None, Some(<< Source(None, Some(SourceUri)), Source(Some(<< "t" >>), None) >>) }
ReplyTexts == { << "r" >> }

NoSend == [pc |-> "idle"]

\* if ((!inputText.trim() && !selectedImage) || isLoading) return;
CanSend(text, attachment) ==
    /\ ~isLoading
    /\ Trim(text) # << >> \/ attachment # "none"

\* handleSend up to its first await: the user message joins the
\* conversation of this render and the busy flag is set.
HandleSend(text, attachment) ==
    /\ send.pc = "idle"
    /\ CanSend(text, attachment)
    /\ Len(messages) + 2 <= MaxMessages
    /\ \E id \in now..MaxClock : \E timestamp \in id..MaxClock :
          /\ id <= now + 1 /\ timestamp <= id + 1
          /\ now' = timestamp
          /\ LET userMessage ==
                   UserMessage(id, text,
                               IF attachment = "previewed" THEN Some(DataUrl) ELSE None,
                               timestamp)
             IN /\ messages' = Append(messages, userMessage)
                /\ send' = [pc |-> IF attachment = "previewed" THEN "reading" ELSE "querying",
                            messages |-> messages,
                            userMessage |-> userMessage]
    /\ isLoading' = TRUE
    /\ UNCHANGED <<archives, isArchivesOpen, chatStore>>
    /\ UNCHANGED <<dispatchVars, scriptVars, footageVars, mediaVars, transcribeVars, workerVars>>

\* await fileToBase64(selectedImage) resolves: clearImage, then the dispatch.
ReadResolves ==
    /\ send.pc = "reading"
    /\ send' = [send EXCEPT !.pc = "querying"]
    /\ UNCHANGED <<messages, archives, isArchivesOpen, chatStore, now, isLoading>>
    /\ UNCHANGED <<dispatchVars, scriptVars, footageVars, mediaVars, transcribeVars, workerVars>>

\* await fileToBase64(selectedImage) rejects: the await is before the try
\* block, so the call ends here and neither catch nor finally runs.
ReadRejects ==
    /\ send.pc = "reading"
    /\ send' = NoSend
    /\ UNCHANGED <<messages, archives, isArchivesOpen, chatStore, now, isLoading>>
    /\ UNCHANGED <<dispatchVars, scriptVars, footageVars, mediaVars, transcribeVars, workerVars>>

\* [...messages, userMessage, botMessage] with the messages of the render
\* the call started in.
Replied(call, botMessage) == call.messages \o << call.userMessage, botMessage >>

\* queryWebNetwork resolves: the bot message, then the finally block.
QueryResolves(text, sources) ==
    /\ send.pc = "querying"
    /\ \E timestamp \in now..MaxClock :
          /\ timestamp <= now + 1
          /\ now' = timestamp
          /\ messages' = Replied(send, BotMessage(now + 1, text, sources, timestamp))
    /\ isLoading' = FALSE
    /\ send' = NoSend
    /\ UNCHANGED <<archives, isArchivesOpen, chatStore>>
    /\ UNCHANGED <<dispatchVars, scriptVars, footageVars, mediaVars, transcribeVars, workerVars>>

\* queryWebNetwork rejects: console.error, then the finally block.
QueryRejects ==
    /\ send.pc = "querying"
    /\ isLoading' = FALSE
    /\ send' = NoSend
    /\ UNCHANGED <<messages, archives, isArchivesOpen, chatStore, now>>
    /\ UNCHANGED <<dispatchVars, scriptVars, footageVars, mediaVars, transcribeVars, workerVars>>

\* ---- a session was saved earlier; the conversation is new or that one ----
SavedConversation == << UserMessage(1, << "h", "i" >>, None, 1) >>

InitSend ==
    /\ InitDispatch /\ InitScript /\ InitFootage /\ InitMedia /\ InitTranscribe /\ InitWorker
    /\ messages \in { << >>, SavedConversation }
    /\ archives = << Session(5, SavedConversation, 5) >>
    /\ isArchivesOpen = FALSE
    /\ chatStore = Some(Stringify(JArrayOf(archives)))
    /\ now = 9
    /\ isLoading = FALSE
    /\ send = NoSend

NextSend ==
    \/ \E text \in SendTexts, attachment \in Attachments : HandleSend(text, attachment)
    \/ ReadResolves
    \/ ReadRejects
    \/ \E text \in ReplyTexts, sources \in ReplySources : QueryResolves(text, sources)
    \/ QueryRejects
    \/ \E k \in 1..Len(archives) : LoadSession(archives[k])

SpecSend == InitSend /\ [][NextSend]_vars

(***************************************************************************)
(* Properties of handleSend, checked under SpecSend.                       *)
(***************************************************************************)
\* C24: the busy flag is set only while a handleSend call is in progress;
\* it is never left set after the call has ended.
C24_BusyOnlyWhileSending == isLoading => send.pc # "idle"

\* C25: when the dispatch resolves, the conversation becomes the
\* conversation as it stood just before, with the bot reply appended.
C25_ReplyJoinsCurrentConversation ==
    [][send.pc = "querying" /\ send'.pc = "idle" /\ ~isLoading' /\ messages' # messages =>
          /\ Len(messages') = Len(messages) + 1
          /\ SubSeq(messages', 1, Len(messages)) = messages]_vars

\* C26: the busy flag is set in every state in which a compileWebReport
\* call is in flight, and at most one call is in flight.
C26_BusyWhileCompiling ==
    /\ compiling > 0 => isGenerating
    /\ compiling <= 1

\* C30: in every state (each step ends with the effects run) the suggestion
\* list is the list of directives extracted from the current body, and it
\* is empty when the body is empty, as it is when a generation has started.
C30_SuggestionsFollowTheBody ==
    /\ suggestions = ParseSuggestions(generatedScript)
    /\ generatedScript = << >> => suggestions = << >>

\* A saved script with a directive was loaded while a generation was in
\* flight.
C30_Witness ==
    /\ compiling = 1
    /\ generatedScript # << >>
    /\ suggestions # << >>

(***************************************************************************)
(* VideoTranscriber (src/components/Sidebar.tsx) and its worker.  The      *)
(* worker handles each message it receives in an async handler of its own  *)
(* and answers with progress messages and one terminal message; a worker   *)
(* that stalls is a worker whose steps are never taken.                    *)
(***************************************************************************)
MaxInbox == 2

VideoFiles == { "a.mp4", "b.mp4" }
OtherFiles == { "notes.txt" }
\* file.type.startsWith('video/')
IsVideo(file) == file \in VideoFiles
\* What the recognizer hears in a file.
Transcript(file) == IF file = "a.mp4" THEN "text of a.mp4" ELSE "text of b.mp4"

INVALID_FILE_TEXT == "Please upload a valid video file."
EXTRACT_FAILED_TEXT == "Failed to extract audio. The file might be corrupted."
TRANSCRIPTION_FAILED_TEXT == "Transcription failed."

\* ---- the worker's messages ----
ProgressMessage(data) == [status |-> "progress", data |-> data, text |-> "", error |-> None]
CompleteMessage(text) == [status |-> "complete", data |-> "", text |-> text, error |-> None]
ErrorMessage(message) == [status |-> "error", data |-> "", text |-> "", error |-> message]
ProgressDatas == { "progress", "initiate", "done" }
\* error.message of what the worker caught: a text, '' or undefined.
WorkerErrors == { Some("no model"), Some(""), None }

IsTerminal(msg) == msg.status \in { "complete", "error" }

\* handleFileSelect; the drop zone and the file input are rendered only
\* while no file is selected.
HandleFileSelect(file) ==
    /\ videoFile = None
    /\ IF ~IsVideo(file)
         THEN /\ error' = Some(INVALID_FILE_TEXT)
              /\ UNCHANGED <<videoFile, transcription, progress>>
         ELSE /\ error' = None
              /\ videoFile' = Some(file)
              /\ transcription' = ""
              /\ progress' = "idle"
    /\ UNCHANGED <<isTranscribing, decoding, workerJobs, inbox>>
    /\ UNCHANGED <<dispatchVars, scriptVars, footageVars, mediaVars, chatVars, transcribeVars>>

\* The transcribe button is rendered with a file and disabled while busy;
\* handleTranscribe returns at once without a file.
CanTranscribe_IgnoreBusy == IsSome(videoFile)

CanTranscribe == IsSome(videoFile) /\ ~isTranscribing

\* handleTranscribe up to await getAudioData(videoFile).
HandleTranscribe ==
    /\ CanTranscribe
    /\ Len(decoding) + Len(workerJobs) + Len(inbox) < MaxInbox
    /\ isTranscribing' = TRUE
    /\ error' = None
    /\ progress' = "processing"
    /\ decoding' = Append(decoding, Val(videoFile))
    /\ UNCHANGED <<videoFile, transcription, workerJobs, inbox>>
    /\ UNCHANGED <<dispatchVars, scriptVars, footageVars, mediaVars, chatVars, transcribeVars>>

RemoveAt(seq, k) == SubSeq(seq, 1, k - 1) \o SubSeq(seq, k + 1, Len(seq))

\* getAudioData resolves: the samples are posted to the worker.
DecodeResolves(k) ==
    /\ decoding' = RemoveAt(decoding, k)
    /\ workerJobs' = Append(workerJobs, decoding[k])
    /\ UNCHANGED <<videoFile, transcription, isTranscribing, error, progress, inbox>>
    /\ UNCHANGED <<dispatchVars, scriptVars, footageVars, mediaVars, chatVars, transcribeVars>>

\* getAudioData rejects: the catch block of handleTranscribe.
DecodeRejects(k) ==
    /\ decoding' = RemoveAt(decoding, k)
    /\ error' = Some(EXTRACT_FAILED_TEXT)
    /\ isTranscribing' = FALSE
    /\ UNCHANGED <<videoFile, transcription, progress, workerJobs, inbox>>
    /\ UNCHANGED <<dispatchVars, scriptVars, footageVars, mediaVars, chatVars, transcribeVars>>

\* The worker reports progress of a job.
WorkerProgress(data) ==
    /\ workerJobs # << >>
    /\ Len(inbox) < MaxInbox
    /\ inbox' = Append(inbox, ProgressMessage(data))
    /\ UNCHANGED <<videoFile, transcription, isTranscribing, error, progress, decoding,
                   workerJobs>>
    /\ UNCHANGED <<dispatchVars, scriptVars, footageVars, mediaVars, chatVars, transcribeVars>>

\* The worker finishes a job: self.postMessage({ status: 'complete', ... }).
WorkerCompletes(k) ==
    /\ workerJobs' = RemoveAt(workerJobs, k)
    /\ inbox' = Append(inbox, CompleteMessage(Transcript(workerJobs[k])))
    /\ UNCHANGED <<videoFile, transcription, isTranscribing, error, progress, decoding>>
    /\ UNCHANGED <<dispatchVars, scriptVars, footageVars, mediaVars, chatVars, transcribeVars>>

\* The worker's catch block: self.postMessage({ status: 'error', ... }).
WorkerFails(k, message) ==
    /\ workerJobs' = RemoveAt(workerJobs, k)
    /\ inbox' = Append(inbox, ErrorMessage(message))
    /\ UNCHANGED <<videoFile, transcription, isTranscribing, error, progress, decoding>>
    /\ UNCHANGED <<dispatchVars, scriptVars, footageVars, mediaVars, chatVars, transcribeVars>>

\* workerRef.current.onmessage, for the oldest message not yet handled.
OnMessage ==
    /\ inbox # << >>
    /\ inbox' = Tail(inbox)
    /\ LET msg == Head(inbox) IN
       CASE msg.status = "progress" ->
              /\ progress' = (CASE msg.data = "progress" -> "downloading"
                                [] msg.data = "initiate" -> "initializing"
                                [] OTHER -> progress)
              /\ UNCHANGED <<transcription, isTranscribing, error>>
         [] msg.status = "complete" ->
              /\ transcription' = msg.text
              /\ isTranscribing' = FALSE
              /\ progress' = "idle"
              /\ UNCHANGED error
         [] msg.status = "error" ->
              /\ error' = Some(IF IsSome(msg.error) /\ Val(msg.error) # ""
                                 THEN Val(msg.error) ELSE TRANSCRIPTION_FAILED_TEXT)
              /\ isTranscribing' = FALSE
              /\ progress' = "idle"
              /\ UNCHANGED transcription
    /\ UNCHANGED <<videoFile, decoding, workerJobs>>
    /\ UNCHANGED <<dispatchVars, scriptVars, footageVars, mediaVars, chatVars, transcribeVars>>

\* handleDeleteVideo, from the remove button of the selected file.
HandleDeleteVideo_StopsBusy ==
    /\ IsSome(videoFile)
    /\ videoFile' = None
    /\ transcription' = ""
    /\ error' = None
    /\ isTranscribing' = FALSE
    /\ UNCHANGED <<progress, decoding, workerJobs, inbox>>
    /\ UNCHANGED <<dispatchVars, scriptVars, footageVars, mediaVars, chatVars, transcribeVars>>

HandleDeleteVideo ==
    /\ IsSome(videoFile)
    /\ videoFile' = None
    /\ transcription' = ""
    /\ error' = None
    /\ UNCHANGED <<isTranscribing, progress, decoding, workerJobs, inbox>>
    /\ UNCHANGED <<dispatchVars, scriptVars, footageVars, mediaVars, chatVars, transcribeVars>>

\* handleDeleteTranscription, from the clear button of the transcript.
HandleDeleteTranscription ==
    /\ transcription # ""
    /\ transcription' = ""
    /\ UNCHANGED <<videoFile, isTranscribing, error, progress, decoding, workerJobs, inbox>>
    /\ UNCHANGED <<dispatchVars, scriptVars, footageVars, mediaVars, chatVars, transcribeVars>>

NextWorker ==
    \/ \E file \in VideoFiles \cup OtherFiles : HandleFileSelect(file)
    \/ HandleTranscribe
    \/ \E k \in 1..Len(decoding) : DecodeResolves(k)
    \/ \E k \in 1..Len(decoding) : DecodeRejects(k)
    \/ \E data \in ProgressDatas : WorkerProgress(data)
    \/ \E k \in 1..Len(workerJobs) : WorkerCompletes(k)
    \/ \E k \in 1..Len(workerJobs), message \in WorkerErrors : WorkerFails(k, message)
    \/ OnMessage
    \/ HandleDeleteVideo
    \/ HandleDeleteTranscription

SpecWorker == Init /\ [][NextWorker]_vars

(***************************************************************************)
(* Properties of VideoTranscriber, checked under SpecWorker.               *)
(***************************************************************************)
\* The jobs posted to the worker whose terminal message the component has
\* not received yet.
Outstanding ==
    Len(workerJobs) + Cardinality({ k \in 1..Len(inbox) : IsTerminal(inbox[k]) })

\* C22: while a posted job is outstanding the busy flag is set, and with a
\* job outstanding the only step that clears the flag is the receipt of a
\* terminal message; no other step does, so with a worker that never
\* answers the flag stays set.
C22_BusyUntilTerminalMessage ==
    [][/\ Outstanding' > 0 => isTranscribing'
       /\ Outstanding > 0 /\ isTranscribing /\ ~isTranscribing' =>
             /\ inbox # << >> /\ IsTerminal(Head(inbox))
             /\ inbox' = Tail(inbox)]_vars

\* A job is with the worker, and the file it came from was removed and
\* another one selected: the component is still busy.
C22_Witness ==
    /\ workerJobs = << "a.mp4" >>
    /\ videoFile = Some("b.mp4")
    /\ isTranscribing

\* C23: at most one job is outstanding, and audio is posted to the worker
\* only when no job is outstanding.
C23_OneOutstandingJob ==
    [][/\ Outstanding' <= 1
       /\ Len(workerJobs') > Len(workerJobs) => Outstanding = 0]_vars

\* A second job is with the worker while the transcript of the first one
\* is still shown.
C23_Witness ==
    /\ Len(workerJobs) = 1
    /\ transcription # ""
    /\ isTranscribing

\* C27: the transcript shown is the transcript of the selected file.
C27_TranscriptOfSelectedFile ==
    transcription # "" =>
        /\ IsSome(videoFile)
        /\ transcription = Transcript(Val(videoFile))

(***************************************************************************)
(* An image component whose src prop changes while it is mounted: the      *)
(* parent renders another reference at the same position.  The effect     *)
(* has [src] as its dependencies and no cleanup.                           *)
(***************************************************************************)
MaxEarlier == 1

\* A render with a new src, followed by the effect.  The state keeps its
\* value across the render; the Image object of the run before keeps its
\* callbacks.
ChangeSrc(i, src) ==
    /\ instances[i].mounted /\ instances[i].effect = "ran"
    /\ instances[i].kind \in ImageKinds
    /\ src # instances[i].src
    /\ instances[i].probe.state = "outstanding" => Len(instances[i].earlier) < MaxEarlier
    /\ instances' = [instances EXCEPT
          ![i] = ImageEffect([instances[i] EXCEPT
                     !.src = src,
                     !.earlier = IF instances[i].probe.state = "outstanding"
                                   THEN Append(@, instances[i].probe) ELSE @,
                     !.probe = NoProbe])]
    /\ UNCHANGED <<dispatchVars, scriptVars, footageVars, chatVars, transcribeVars, workerVars>>

\* img.onload of an Image object of an earlier run of the effect.
EarlierProbeLoads(i) ==
    /\ instances[i].earlier # << >>
    /\ instances' = [instances EXCEPT
          ![i] = [instances[i] EXCEPT
                     !.earlier = Tail(@),
                     !.status = IF instances[i].mounted THEN "loaded" ELSE @]]
    /\ UNCHANGED <<dispatchVars, scriptVars, footageVars, chatVars, transcribeVars, workerVars>>

\* img.onerror of an Image object of an earlier run of the effect.
EarlierProbeFails(i) ==
    /\ instances[i].earlier # << >>
    /\ instances' = [instances EXCEPT
          ![i] = [instances[i] EXCEPT
                     !.earlier = Tail(@),
                     !.status = IF instances[i].mounted THEN "error" ELSE @]]
    /\ UNCHANGED <<dispatchVars, scriptVars, footageVars, chatVars, transcribeVars, workerVars>>

NextSrc ==
    \/ \E kind \in ImageKinds, src \in ImageSrcs, alt \in ImageAlts :
          MountImage(kind, src, alt)
    \/ \E i \in 1..Len(instances) : RunEffect(i)
    \/ \E i \in 1..Len(instances) : ProbeLoads(i)
    \/ \E i \in 1..Len(instances) : ProbeFails(i)
    \/ \E i \in 1..Len(instances), src \in ChangedSrcs : ChangeSrc(i, src)
    \/ \E i \in 1..Len(instances) : EarlierProbeLoads(i)
    \/ \E i \in 1..Len(instances) : EarlierProbeFails(i)
    \/ \E i \in 1..Len(instances) : Unmount(i)

SpecSrc == Init /\ [][NextSrc]_vars

(***************************************************************************)
(* Properties of an image component with a changing src, checked under     *)
(* SpecSrc.                                                                *)
(***************************************************************************)
\* C29: for a mounted image component whose effect has run, the state is
\* loading while the probe of the current src is outstanding, and an image
\* element is rendered only when the probe of the current src succeeded.
C29_StateRefersToCurrentSrc ==
    \A i \in ImageIds :
        instances[i].mounted /\ instances[i].effect = "ran" =>
            /\ instances[i].probe.state = "outstanding" => instances[i].status = "loading"
            /\ Render(instances[i]).element = "img" =>
                  /\ instances[i].probe.state = "load"
                  /\ instances[i].probe.url = Render(instances[i]).target

====
